---- MODULE Spec2Model ----
(***************************************************************************)
(* Model of the wallet-check scripts of crypto-lark-bot-wallet-check:      *)
(*   balance_checker.py  (WalletBalanceChecker, BalanceService)            *)
(*   wallet_analyzer.py  (WalletAnalyzer, AdditionalDataService)           *)
(*   diagnostic.py       (WalletDiagnostic)                                *)
(*   csv_analyzer.py     (OutputAnalyzer)                                  *)
(* One run of one script is one behaviour: prog says which script runs,    *)
(* pc is its position.  The explorer API is the environment: every GET is  *)
(* one step whose response is chosen from a small set of responses.        *)
(***************************************************************************)
EXTENDS Integers, Sequences, FiniteSets, TLC

VARIABLES
    prog,          \* the script that runs
    pc,            \* its control position
    book,          \* wallets.json on disk: [status, entries]
    wallet_data,   \* the loaded address book (entries in document order)
    i,             \* position of the wallet loop (1-based)
    cur,           \* locals of the wallet being processed
    balances,      \* balance_checker: wallets_to_check / balances, in order
    results,       \* per-wallet results (wallet_results, all_results, results)
    summary,       \* the aggregate (results['summary'], master summary totals)
    counters,      \* wallet_analyzer: successful_analyses, failed_analyses
    rows,          \* the CSV rows emitted, in file order
    files,         \* output files written so far
    summaries_dir, \* csv_analyzer: the *_summary.json files it reads
    sent,          \* endpoints requested for the current wallet, in order
    failed,        \* endpoints whose request failed for the current wallet
    requested,     \* wallets for which at least one GET was issued
    upstream,      \* per wallet, the kind of balance response the API gave
    printed        \* the BY COMPANY listing printed (balance_checker, diagnostic)

vars == <<prog, pc, book, wallet_data, i, cur, balances, results, summary,
          counters, rows, files, summaries_dir, sent, failed, requested,
          upstream, printed>>

---------------------------------------------------------------------------
(* Bounds of the model *)

MaxWallets == 2

MaxTokens == 2

MaxSummaries == 2

MaxTransfers == 2

MaxHistory == 2

MaxAggregated == 3

(* Program constants *)

USDT_DECIMALS == 6

ADDRESS_LENGTH == 34

DEBUG_WALLETS == 3

GMT_OFFSET == 7

USDT_CONTRACT == "TR7NHqjeKQxGTCi8q8ZY4pL8otSzgjLj6t"

---------------------------------------------------------------------------
(* Values.  A Decimal is coef * 10^exp, as in Python's decimal module; None *)
(* and text share the record shape so that values can be compared.          *)

None == [tag |-> "None", coef |-> 0, exp |-> 0]

Dec(c, e) == [tag |-> "Decimal", coef |-> c, exp |-> e]

Str(c, e) == [tag |-> "str", coef |-> c, exp |-> e]

RECURSIVE Pow10(_)
Pow10(n) == IF n <= 0 THEN 1 ELSE 10 * Pow10(n - 1)

MinInt(a, b) == IF a <= b THEN a ELSE b

\* Decimal.__add__: exact, at the smaller exponent
DecAdd(a, b) ==
    LET e == MinInt(a.exp, b.exp)
    IN  Dec(a.coef * Pow10(a.exp - e) + b.coef * Pow10(b.exp - e), e)

\* Decimal.__truediv__ gives the exact quotient with the exponent as close
\* to the ideal one (the dividend's) as exactness allows: trailing zeros of
\* the coefficient are dropped while the exponent is below the ideal
RECURSIVE Reduce(_, _, _)
Reduce(c, e, ideal) ==
    IF e < ideal /\ c % 10 = 0 THEN Reduce(c \div 10, e + 1, ideal)
    ELSE Dec(c, e)

\* a quotient cut to whole units
DecDivMillionWhole(a) == Dec(a.coef \div Pow10(USDT_DECIMALS - a.exp), 0)

\* raw_balance / Decimal('1000000'): exact, up to six digits further right
\* (1500000 gives 1.5, 10000000 gives 10, 1 gives 0.000001)
DecDivMillion(a) == Reduce(a.coef, a.exp - USDT_DECIMALS, a.exp)

\* str(d) for a Decimal d
DecStr(d) == Str(d.coef, d.exp)

\* float(s) > 0, float(s) == 0 for a text or Decimal s
IsPositive(v) == v.coef > 0

IsZero(v) == v.coef = 0

\* numeric equality of two numbers, whatever their exponents
NumEq(a, b) ==
    LET e == MinInt(a.exp, b.exp)
    IN  a.coef * Pow10(a.exp - e) = b.coef * Pow10(b.exp - e)

---------------------------------------------------------------------------
(* The address book *)

Addr(present, isStr, first, len) ==
    [present |-> present, isStr |-> isStr, first |-> first, len |-> len]

AddrValid == Addr(TRUE, TRUE, "T", ADDRESS_LENGTH)

AddrMissing == Addr(FALSE, FALSE, "", 0)

AddrShort == Addr(TRUE, TRUE, "T", ADDRESS_LENGTH - 1)

AddrBadPrefix == Addr(TRUE, TRUE, "X", ADDRESS_LENGTH)

\* Python truthiness of wallet_info.get('address')
Truthy(a) == a.present /\ (a.isStr => a.len > 0)

\* the validation without its length test
validate_prefix_only(a) ==
    IF ~Truthy(a) \/ ~a.isStr THEN FALSE ELSE a.first = "T"

\* the validation without its isinstance test
validate_any_type(a) ==
    IF ~Truthy(a) THEN FALSE ELSE a.first = "T" /\ a.len = ADDRESS_LENGTH

validate_trc20_address(a) ==
    IF ~Truthy(a) \/ ~a.isStr
    THEN FALSE
    ELSE a.first = "T" /\ a.len = ADDRESS_LENGTH

NotAnObject == [isObj |-> FALSE, address |-> AddrMissing, company |-> "<missing>"]

WalletInfo(a, c) == [isObj |-> TRUE, address |-> a, company |-> c]

\* the company as the entry spells it, without a default
CompanyAsWritten(info) == info.company

\* wallet_info.get('company', 'Unknown')
CompanyOf(info) == IF info.company = "<missing>" THEN "Unknown" ELSE info.company

BookEntries ==
    {NotAnObject, WalletInfo(AddrMissing, "A"), WalletInfo(AddrShort, "A"),
     WalletInfo(AddrValid, "A"), WalletInfo(AddrValid, "B")}

SeqsUpTo(S, n) == UNION {[1..k -> S] : k \in 0..n}

Books ==
    {[status |-> "ok", entries |-> es] : es \in SeqsUpTo(BookEntries, MaxWallets)}
    \cup {[status |-> st, entries |-> <<>>] :
             st \in {"missing", "invalid_json", "unreadable"}}

\* WalletService.load_wallets: every failure yields the empty dict
load_wallets(b) == IF b.status = "ok" THEN b.entries ELSE <<>>

---------------------------------------------------------------------------
(* The token-balance endpoint: GET /api/account/tokens?address=... *)

Token(id, parsable, raw) ==
    [isDict |-> TRUE, tokenId |-> id, parsable |-> parsable, raw |-> raw]

NotADict == [isDict |-> FALSE, tokenId |-> "", parsable |-> FALSE, raw |-> 0]

TokenEntries ==
    {Token("OTHER", TRUE, 5), Token(USDT_CONTRACT, TRUE, 10000000),
     Token(USDT_CONTRACT, FALSE, 0), NotADict}

BalanceResponses ==
    {[cond |-> c, hasData |-> FALSE, data |-> <<>>] :
        c \in {"timeout", "connection", "http_error", "bad_json", "ok"}}
    \cup {[cond |-> "ok", hasData |-> TRUE, data |-> d] :
             d \in SeqsUpTo(TokenEntries, MaxTokens)}

\* the for-loop with a missing USDT entry reported as a failed fetch
RECURSIVE ScanTokensStrict(_, _)
ScanTokensStrict(data, k) ==
    IF k > Len(data) THEN None
    ELSE LET token == data[k]
         IN  IF ~token.isDict THEN None
             ELSE IF token.tokenId = USDT_CONTRACT
                  THEN IF ~token.parsable THEN Dec(0, -1)
                       ELSE DecDivMillion(Dec(token.raw, 0))
                  ELSE ScanTokensStrict(data, k + 1)

\* the for-loop over the token list, from entry k on
RECURSIVE ScanTokens(_, _)
ScanTokens(data, k) ==
    IF k > Len(data) THEN Dec(0, -1)
    ELSE LET token == data[k]
         IN  IF ~token.isDict THEN None
             ELSE IF token.tokenId = USDT_CONTRACT
                  THEN IF ~token.parsable THEN Dec(0, -1)
                       ELSE DecDivMillion(Dec(token.raw, 0))
                  ELSE ScanTokens(data, k + 1)

get_usdt_trc20_balance(resp) ==
    IF resp.cond # "ok" THEN None
    ELSE IF ~resp.hasData \/ resp.data = <<>> THEN Dec(0, -1)
    ELSE ScanTokens(resp.data, 1)

\* What the API did, for the record kept in upstream: the request failed
\* (timeout, transport error, non-2xx), the body was malformed, or the body
\* was a well-formed token list, which holds a USDT entry or does not.
WellFormedBody(resp) ==
    /\ resp.hasData
    /\ \A k \in 1..Len(resp.data) :
          resp.data[k].isDict
          /\ (resp.data[k].tokenId = USDT_CONTRACT => resp.data[k].parsable)

ResponseKind(resp) ==
    IF resp.cond \in {"timeout", "connection", "http_error"} THEN "request_failed"
    ELSE IF resp.cond = "bad_json" \/ ~WellFormedBody(resp) THEN "malformed"
    ELSE IF \E k \in 1..Len(resp.data) : resp.data[k].tokenId = USDT_CONTRACT
    THEN "held"
    ELSE "absent"

\* the fetch ended in one of the except clauses (lines 78-89) and returned None
BalanceFetchFailed(resp) == get_usdt_trc20_balance(resp) = None

---------------------------------------------------------------------------
(* Ordering of report rows: by company, then by wallet name.  Wallets are   *)
(* named by their position in the document; company names order as text.    *)

CompanyRank(c) == CASE c = "A" -> 1 [] c = "B" -> 2 [] OTHER -> 3

\* the sort key (x['company'], x['wallet_name']) compared as Python tuples
KeyLess(a, b) ==
    \/ CompanyRank(a.company) < CompanyRank(b.company)
    \/ CompanyRank(a.company) = CompanyRank(b.company) /\ a.wallet < b.wallet

RECURSIVE InsertRow(_, _)
InsertRow(sorted, r) ==
    IF sorted = <<>> THEN <<r>>
    ELSE IF KeyLess(r, Head(sorted)) THEN <<r>> \o sorted
    ELSE <<Head(sorted)>> \o InsertRow(Tail(sorted), r)

\* list.sort(key=...): stable, ascending
RECURSIVE SortRows(_)
SortRows(rs) ==
    IF rs = <<>> THEN <<>>
    ELSE InsertRow(SortRows(SubSeq(rs, 1, Len(rs) - 1)), rs[Len(rs)])

---------------------------------------------------------------------------
(* balance_checker.py *)

Text(s) == [tag |-> s, coef |-> 0, exp |-> 0]

\* line 180: address and validate_trc20_address(address)
CheckerAccepts(info) == Truthy(info.address) /\ validate_trc20_address(info.address)

\* every wallet of the document taken as a wallet to check
WalletsToCheckAll(data, k) == [j \in 1..Len(data) |-> j]

\* lines 177-183: the wallets to check, in document order
RECURSIVE WalletsToCheck(_, _)
WalletsToCheck(data, k) ==
    IF k > Len(data) THEN <<>>
    ELSE (IF CheckerAccepts(data[k]) THEN <<k>> ELSE <<>>)
         \o WalletsToCheck(data, k + 1)

CheckerSummaryZero ==
    [successful_checks |-> 0, failed_checks |-> 0,
     total_usdt_balance |-> Dec(0, 0), wallets_with_balance |-> 0]

\* the fold with a failed fetch taken as a successful zero
CheckerSummaryAddZeroed(s, balance) ==
    [s EXCEPT !.successful_checks = @ + 1,
              !.total_usdt_balance = DecAdd(@, balance),
              !.wallets_with_balance = IF IsPositive(balance) THEN @ + 1 ELSE @]

\* the fold with the total replaced by the balance of the wallet at hand
CheckerSummaryAddLast(s, balance) ==
    IF balance # None
    THEN [s EXCEPT !.successful_checks = @ + 1,
                   !.total_usdt_balance = balance,
                   !.wallets_with_balance =
                       IF IsPositive(balance) THEN @ + 1 ELSE @]
    ELSE [s EXCEPT !.failed_checks = @ + 1]

\* lines 220-226: one wallet folded into results['summary']
CheckerSummaryAdd(s, balance) ==
    IF balance # None
    THEN [s EXCEPT !.successful_checks = @ + 1,
                   !.total_usdt_balance = DecAdd(@, balance),
                   !.wallets_with_balance =
                       IF IsPositive(balance) THEN @ + 1 ELSE @]
    ELSE [s EXCEPT !.failed_checks = @ + 1]

RECURSIVE CheckerFold(_, _, _)
CheckerFold(bs, k, s) ==
    IF k > Len(bs) THEN s
    ELSE CheckerFold(bs, k + 1, CheckerSummaryAdd(s, bs[k].balance))

\* lines 209-216
WalletResult(data, b) ==
    [wallet |-> b.wallet,
     company |-> CompanyOf(data[b.wallet]),
     address |-> data[b.wallet].address,
     usdt_balance |-> b.balance,
     balance_str |-> IF b.balance # None THEN DecStr(b.balance) ELSE Text("Failed"),
     success |-> b.balance # None]

\* lines 241-254: one CSV row of save_to_csv
CheckerCsvRow(r) ==
    [wallet |-> r.wallet,
     company |-> r.company,
     usdt_balance |-> IF r.usdt_balance # None THEN DecStr(r.usdt_balance)
                      ELSE Str(0, -1),
     balance_numeric |-> IF r.usdt_balance # None
                         THEN [r.usdt_balance EXCEPT !.tag = "float"]
                         ELSE [tag |-> "float", coef |-> 0, exp |-> -1],
     api_success |-> IF r.success THEN "Yes" ELSE "No",
     has_balance |-> IF r.usdt_balance # None /\ IsPositive(r.usdt_balance)
                     THEN "Yes" ELSE "No"]

\* print_summary, lines 291-299 (and diagnostic.py, lines 246-254): one wallet
\* folded into the dict companies, kept in insertion order; the balance is
\* added when it is truthy
CompanyStatsAdd(cs, company, balance) ==
    LET k == IF \E j \in 1..Len(cs) : cs[j].company = company
             THEN CHOOSE j \in 1..Len(cs) : cs[j].company = company
             ELSE Len(cs) + 1
        old == IF k <= Len(cs) THEN cs[k]
               ELSE [company |-> company, count |-> 0, usdt_total |-> Dec(0, 0)]
        new == [old EXCEPT
                 !.count = @ + 1,
                 !.usdt_total = IF balance # None /\ ~IsZero(balance)
                                THEN DecAdd(@, balance) ELSE @]
    IN  IF k <= Len(cs) THEN [cs EXCEPT ![k] = new] ELSE Append(cs, new)

\* sorted(companies.items()): the listing in the order of the company names
RECURSIVE InsertCompany(_, _)
InsertCompany(sorted, c) ==
    IF sorted = <<>> THEN <<c>>
    ELSE IF CompanyRank(c.company) < CompanyRank(Head(sorted).company)
    THEN <<c>> \o sorted
    ELSE <<Head(sorted)>> \o InsertCompany(Tail(sorted), c)

RECURSIVE SortCompanies(_)
SortCompanies(cs) ==
    IF cs = <<>> THEN <<>>
    ELSE InsertCompany(SortCompanies(SubSeq(cs, 1, Len(cs) - 1)), cs[Len(cs)])

RECURSIVE CheckerCompaniesFold(_, _, _)
CheckerCompaniesFold(rs, k, cs) ==
    IF k > Len(rs) THEN cs
    ELSE CheckerCompaniesFold(rs, k + 1,
             CompanyStatsAdd(cs, rs[k].company, rs[k].usdt_balance))

\* print_summary, lines 290-303: the BY COMPANY listing
print_summary(rs) == SortCompanies(CheckerCompaniesFold(rs, 1, <<>>))

\* check_all_wallets up to the fetch loop (lines 168-185), and what main does
\* with an empty result (line 329: results['wallet_results'] raises KeyError)
CheckerLoad ==
    /\ prog = "balance_checker" /\ pc = "load"
    /\ LET data == load_wallets(book)
       IN  /\ wallet_data' = data
           /\ upstream' = [w \in 1..Len(data) |-> "none"]
           /\ IF data = <<>> \/ \E k \in 1..Len(data) : ~data[k].isObj
              THEN pc' = "crashed" /\ cur' = cur
              ELSE pc' = "fetch"
                   /\ cur' = [cur EXCEPT !.to_check = WalletsToCheck(data, 1)]
    /\ i' = 1
    /\ UNCHANGED <<prog, book, balances, results, summary, counters, rows,
                   files, summaries_dir, sent, failed, requested, printed>>

\* what the GET of fetch_multiple_balances may bring: the responses above and
\* a token list whose USDT entry carries a negative raw balance
CheckerBalanceResponses ==
    BalanceResponses
    \cup {[cond |-> "ok", hasData |-> TRUE,
           data |-> <<Token(USDT_CONTRACT, TRUE, -5000000)>>]}

\* fetch_multiple_balances: one iteration, one GET
CheckerFetch ==
    /\ prog = "balance_checker" /\ pc = "fetch" /\ i <= Len(cur.to_check)
    /\ \E resp \in CheckerBalanceResponses :
         LET w == cur.to_check[i]
         IN  /\ balances' = Append(balances,
                    [wallet |-> w, balance |-> get_usdt_trc20_balance(resp)])
             /\ sent' = <<"tokens">>
             /\ failed' = IF BalanceFetchFailed(resp) THEN {"tokens"} ELSE {}
             /\ requested' = requested \cup {w}
             /\ upstream' = [upstream EXCEPT ![w] = ResponseKind(resp)]
    /\ i' = i + 1
    /\ UNCHANGED <<prog, pc, book, wallet_data, cur, results, summary, counters,
                   rows, files, summaries_dir, printed>>

\* check_all_wallets, lines 190-228: the results and their summary
CheckerAggregate ==
    /\ prog = "balance_checker" /\ pc = "fetch" /\ i > Len(cur.to_check)
    /\ results' = [k \in 1..Len(balances) |-> WalletResult(wallet_data, balances[k])]
    /\ summary' = CheckerFold(balances, 1, CheckerSummaryZero)
    /\ pc' = "report"
    /\ UNCHANGED <<prog, book, wallet_data, i, cur, balances, counters, rows,
                   files, summaries_dir, sent, failed, requested, upstream,
                   printed>>

\* main, lines 329-346: print_summary, save_to_csv, the JSON dump
CheckerReport ==
    /\ prog = "balance_checker" /\ pc = "report"
    /\ IF results = <<>>
       THEN rows' = rows /\ files' = files /\ printed' = printed
       ELSE /\ printed' = print_summary(results)
            /\ rows' = SortRows([k \in 1..Len(results) |-> CheckerCsvRow(results[k])])
            /\ files' = files \cup {<<"wallet_balances.csv", 0>>, <<"balance_check.json", 0>>}
    /\ pc' = "done"
    /\ UNCHANGED <<prog, book, wallet_data, i, cur, balances, results, summary,
                   counters, summaries_dir, sent, failed, requested, upstream>>

---------------------------------------------------------------------------
(* wallet_analyzer.py: AdditionalDataService *)

DEBUG_PROBES == 3

\* GET /api/account; the bodies taken here carry numbers in 'balance' and
\* 'totalTransactionCount'
AccountNone == [some |-> FALSE, balance |-> 0, total |-> 0]

AccountResponses ==
    {[ok |-> FALSE, balance |-> 0, total |-> 0],
     [ok |-> TRUE, balance |-> 0, total |-> 3]}

get_account_info(resp) ==
    IF resp.ok
    THEN [some |-> TRUE, balance |-> resp.balance, total |-> resp.total]
    ELSE AccountNone

\* GET /api/transaction
Tx(hasTs, numeric, ts) == [hasTs |-> hasTs, numeric |-> numeric, ts |-> ts]

HistoryNone == [some |-> FALSE, hasData |-> FALSE, data |-> <<>>]

HistoryResponses ==
    {[ok |-> FALSE, hasData |-> FALSE, data |-> <<>>],
     [ok |-> TRUE, hasData |-> TRUE, data |-> <<Tx(TRUE, TRUE, 86400000)>>],
     [ok |-> TRUE, hasData |-> TRUE, data |-> <<Tx(TRUE, FALSE, 0)>>]}

get_transaction_history(resp) ==
    IF resp.ok
    THEN [some |-> TRUE, hasData |-> resp.hasData, data |-> resp.data]
    ELSE HistoryNone

Date(d) == [tag |-> "date", coef |-> d, exp |-> 0]

\* min(transactions, key=timestamp or inf): the first entry of least key
RECURSIVE OldestTx(_, _, _)
OldestTx(data, k, best) ==
    IF k > Len(data) THEN best
    ELSE LET better ==
                 /\ data[k].hasTs
                 /\ (~data[best].hasTs \/ data[k].ts < data[best].ts)
         IN  OldestTx(data, k + 1, IF better THEN k ELSE best)

\* datetime.fromtimestamp(ms / 1000, GMT+7).strftime('%Y-%m-%d'), as a day number
DayOf(ms) == ((ms \div 1000) + GMT_OFFSET * 3600) \div 86400

\* [raised, value]: a timestamp that is not a number raises TypeError
find_creation_date(h) ==
    IF ~h.some \/ ~h.hasData \/ h.data = <<>>
    THEN [raised |-> FALSE, value |-> None]
    ELSE IF \E k \in 1..Len(h.data) : h.data[k].hasTs /\ ~h.data[k].numeric
    THEN [raised |-> TRUE, value |-> None]
    ELSE LET oldest == h.data[OldestTx(h.data, 1, 1)]
         IN  IF ~oldest.hasTs \/ oldest.ts = 0
             THEN [raised |-> FALSE, value |-> None]
             ELSE [raised |-> FALSE, value |-> Date(DayOf(oldest.ts))]

\* GET /api/token_trc20/transfers
Tr(to, from) ==
    [to_address |-> to, from_address |-> from, toAddress |-> "", fromAddress |-> ""]

TrcNone == [some |-> FALSE, key |-> "none", transfers |-> <<>>]

TransferResponses ==
    {[raised |-> TRUE, key |-> "none", transfers |-> <<>>],
     [raised |-> FALSE, key |-> "none", transfers |-> <<>>],
     [raised |-> FALSE, key |-> "token_transfers",
      transfers |-> <<Tr("SELF", "OTHER")>>]}

FallbackResponses ==
    {[raised |-> TRUE, key |-> "none", transfers |-> <<>>],
     [raised |-> FALSE, key |-> "data", transfers |-> <<Tr("SELF", "OTHER")>>]}

\* lines 275-294: the first attempt's result when it did not raise
FirstAttemptData(resp) ==
    IF resp.key = "token_transfers"
    THEN [some |-> TRUE, key |-> resp.key, transfers |-> resp.transfers]
    ELSE TrcNone

\* lines 300-312: the fallback's result
FallbackData(resp) ==
    IF resp.raised THEN TrcNone
    ELSE [some |-> TRUE, key |-> resp.key, transfers |-> resp.transfers]

\* the address texts compared as they are spelled
KeepCase(x) == x

\* str.lower() on the address texts of the model
Lower(x) ==
    CASE x \in {"SELF", "Self"} -> "self"
      [] x \in {"OTHER", "Other"} -> "other"
      [] OTHER -> x

Unavailable(err) ==
    [trc20_transfers_in |-> 0, trc20_transfers_out |-> 0,
     total_trc20_transfers |-> 0, data_available |-> FALSE,
     transfers_found |-> 0, error |-> err]

\* lines 341-358: the counting loop, from entry k on
RECURSIVE CountTransfers(_, _, _, _, _)
CountTransfers(ts, k, wallet_lower, nin, nout) ==
    IF k > Len(ts) THEN <<nin, nout>>
    ELSE LET t == ts[k]
             to_addr == IF Lower(t.to_address) = "" THEN Lower(t.toAddress)
                        ELSE Lower(t.to_address)
             from_addr == IF Lower(t.from_address) = "" THEN Lower(t.fromAddress)
                          ELSE Lower(t.from_address)
         IN  IF to_addr = wallet_lower
             THEN CountTransfers(ts, k + 1, wallet_lower, nin + 1, nout)
             ELSE IF from_addr = wallet_lower
             THEN CountTransfers(ts, k + 1, wallet_lower, nin, nout + 1)
             ELSE CountTransfers(ts, k + 1, wallet_lower, nin, nout)

count_trc20_transfers(trc20_data, wallet_address) ==
    IF ~trc20_data.some THEN Unavailable("No TRC20 data received")
    ELSE IF trc20_data.key = "none" \/ trc20_data.transfers = <<>>
    THEN Unavailable("No transfers found in response")
    ELSE LET c == CountTransfers(trc20_data.transfers, 1, Lower(wallet_address), 0, 0)
         IN  [trc20_transfers_in |-> c[1], trc20_transfers_out |-> c[2],
              total_trc20_transfers |-> c[1] + c[2], data_available |-> TRUE,
              transfers_found |-> Len(trc20_data.transfers), error |-> "None"]

---------------------------------------------------------------------------
(* diagnostic.py: WalletDiagnostic, the two requests *)

\* lines 43-52: the result before the request (the fields that the summary
\* and the report decide on)
DetailsInit ==
    [usdt_balance |-> None, api_success |-> FALSE,
     usdt_token_found |-> FALSE, error |-> "None"]

\* lines 84-102: the search for the USDT entry, from entry k on
RECURSIVE DetailedScan(_, _, _)
DetailedScan(data, k, result) ==
    IF k > Len(data) THEN [result EXCEPT !.usdt_balance = Dec(0, -1)]
    ELSE LET token == data[k]
         IN  IF token.tokenId = USDT_CONTRACT
             THEN IF token.parsable
                  THEN [result EXCEPT
                          !.usdt_token_found = TRUE,
                          !.usdt_balance = DecDivMillion(Dec(token.raw, 0))]
                  ELSE [result EXCEPT
                          !.usdt_token_found = TRUE,
                          !.error = "Error converting balance",
                          !.usdt_balance = Dec(0, -1)]
             ELSE DetailedScan(data, k + 1, result)

get_usdt_balance_detailed(resp) ==
    CASE resp.cond = "timeout" -> [DetailsInit EXCEPT !.error = "Request timeout"]
      [] resp.cond = "http_error" -> [DetailsInit EXCEPT !.error = "HTTP error"]
      [] resp.cond = "connection" -> [DetailsInit EXCEPT !.error = "Connection error"]
      [] resp.cond = "bad_json" -> [DetailsInit EXCEPT !.error = "JSON decode error"]
      [] OTHER ->
           LET got == [DetailsInit EXCEPT !.api_success = TRUE]
           IN  IF ~resp.hasData \/ resp.data = <<>>
               THEN [got EXCEPT !.usdt_balance = Dec(0, -1)]
               ELSE IF \E k \in 1..Len(resp.data) : ~resp.data[k].isDict
               THEN [got EXCEPT !.error = "Unexpected error"]
               ELSE DetailedScan(resp.data, 1, got)

\* GET /api/account as check_account_info reads it: a 'balance' that is not a
\* number raises inside the try
AccountCheckResponses ==
    {[ok |-> FALSE, wellTyped |-> TRUE, balance |-> 0, total |-> 0],
     [ok |-> TRUE, wellTyped |-> TRUE, balance |-> 0, total |-> 3],
     [ok |-> TRUE, wellTyped |-> FALSE, balance |-> 0, total |-> 0]}

check_account_info(resp) ==
    IF resp.ok /\ resp.wellTyped
    THEN [success |-> TRUE, balance_trx |-> Dec(resp.balance, -6),
          total_transactions |-> resp.total]
    ELSE [success |-> FALSE, balance_trx |-> None, total_transactions |-> 0]

---------------------------------------------------------------------------
(* wallet_analyzer.py: WalletAnalyzer *)

CurInit ==
    [usdt_balance |-> None, account_info |-> AccountNone,
     transaction_history |-> HistoryNone, creation_date |-> None,
     trc20_transfers |-> TrcNone, to_check |-> <<>>,
     usdt_details |-> DetailsInit]

\* lines 411-419 under the try of lines 527-565: what becomes of an entry
AnalyzerEntry(info) ==
    IF ~info.isObj THEN "raise"
    ELSE IF ~Truthy(info.address) THEN "reject"
    ELSE IF ~validate_trc20_address(info.address) THEN "reject"
    ELSE "analyze"

\* the balance request issued again after a failed fetch
AfterBalanceRetry(usdt_balance) ==
    IF usdt_balance = None THEN "balance" ELSE "account"

\* the wallet given up when the account request failed
AfterAccountInfoGiveUp(account_info) ==
    IF ~account_info.some THEN "finish" ELSE "history"

\* lines 424-436: the order of the calls of analyze_single_wallet
AfterBalance(usdt_balance) == "account"

AfterAccountInfo(account_info) == "history"

\* line 432: the wallets debugged are the first three keys of the document,
\* which is read again from disk for every wallet
DebugSelected(w, b) ==
    w <= MinInt(DEBUG_WALLETS, Len(load_wallets(b)))

AfterHistory(w, b) == IF DebugSelected(w, b) THEN "debug" ELSE "trc20"

\* lines 270-312: whether get_trc20_transfers tries the fallback request
AfterFirstAttempt(resp) == IF resp.raised THEN "fallback" ELSE "finish"

\* lines 440-490: the summary of one analysed wallet
WalletSummary(w, info, c) ==
    LET tc == count_trc20_transfers(c.trc20_transfers, "SELF")
    IN  [wallet |-> w,
         company |-> CompanyOf(info),
         usdt_balance |-> IF c.usdt_balance # None THEN DecStr(c.usdt_balance)
                          ELSE Str(0, -1),
         usdt_balance_decimal |-> c.usdt_balance,
         creation_date |-> IF c.creation_date # None THEN c.creation_date
                           ELSE Text("Unknown"),
         trc20_transfers_in |-> tc.trc20_transfers_in,
         trc20_transfers_out |-> tc.trc20_transfers_out,
         total_trc20_transfers |-> tc.total_trc20_transfers,
         trc20_debug_info |-> [data_available |-> tc.data_available,
                               transfers_found |-> tc.transfers_found,
                               error |-> tc.error],
         api_success |-> [usdt_balance |-> c.usdt_balance # None,
                          account_info |-> c.account_info.some,
                          transaction_history |-> c.transaction_history.some,
                          trc20_transfers |-> tc.data_available],
         trx_balance |-> IF c.account_info.some
                         THEN Str(c.account_info.balance, -6) ELSE Str(0, -1),
         total_transactions |-> IF c.account_info.some
                                THEN c.account_info.total ELSE 0]

MasterZero ==
    [total_wallets |-> 0, companies |-> <<>>, wallet_summaries |-> <<>>,
     totals |-> [total_usdt_balance |-> Dec(0, 0), wallets_with_usdt |-> 0,
                 successful_balance_checks |-> 0,
                 successful_trc20_transfer_checks |-> 0,
                 total_trc20_transfers_in |-> 0,
                 total_trc20_transfers_out |-> 0]]

\* one entry of company_stats shared by all companies
CompanyIndexShared(cs, company) == 1

\* lines 600-609, 636, 645: company_stats, a dict kept in insertion order
CompanyIndex(cs, company) ==
    IF \E k \in 1..Len(cs) : cs[k].company = company
    THEN CHOOSE k \in 1..Len(cs) : cs[k].company = company
    ELSE Len(cs) + 1

CompanyAdd(cs, s) ==
    LET k == CompanyIndex(cs, s.company)
        old == IF k <= Len(cs) THEN cs[k]
               ELSE [company |-> s.company, wallet_count |-> 0,
                     total_usdt |-> Dec(0, 0), total_trc20_transfers |-> 0,
                     wallets |-> <<>>]
        new == [old EXCEPT
                 !.wallet_count = @ + 1,
                 !.wallets = Append(@, s.wallet),
                 !.total_usdt = IF s.usdt_balance_decimal # None
                                THEN DecAdd(@, s.usdt_balance_decimal) ELSE @,
                 !.total_trc20_transfers =
                     IF s.api_success.trc20_transfers
                     THEN @ + s.trc20_transfers_in + s.trc20_transfers_out ELSE @]
    IN  IF k <= Len(cs) THEN [cs EXCEPT ![k] = new] ELSE Append(cs, new)

\* the totals with the outgoing transfers left out of the sum
TotalsAddIncomingOnly(t, s) ==
    LET b == s.usdt_balance_decimal
        t1 == IF b # None
              THEN [t EXCEPT !.successful_balance_checks = @ + 1,
                             !.total_usdt_balance = DecAdd(@, b),
                             !.wallets_with_usdt =
                                 IF IsPositive(b) THEN @ + 1 ELSE @]
              ELSE t
    IN  IF s.api_success.trc20_transfers
        THEN [t1 EXCEPT !.successful_trc20_transfer_checks = @ + 1,
                        !.total_trc20_transfers_in = @ + s.trc20_transfers_in]
        ELSE t1

\* lines 632-645: one wallet folded into master_summary['totals']
TotalsAdd(t, s) ==
    LET b == s.usdt_balance_decimal
        t1 == IF b # None
              THEN [t EXCEPT !.successful_balance_checks = @ + 1,
                             !.total_usdt_balance = DecAdd(@, b),
                             !.wallets_with_usdt =
                                 IF IsPositive(b) THEN @ + 1 ELSE @]
              ELSE t
    IN  IF s.api_success.trc20_transfers
        THEN [t1 EXCEPT !.successful_trc20_transfer_checks = @ + 1,
                        !.total_trc20_transfers_in = @ + s.trc20_transfers_in,
                        !.total_trc20_transfers_out = @ + s.trc20_transfers_out]
        ELSE t1

\* lines 616-630
MasterWalletSummary(s) ==
    [wallet |-> s.wallet, company |-> s.company,
     usdt_balance |-> IF s.usdt_balance_decimal # None
                      THEN DecStr(s.usdt_balance_decimal) ELSE Str(0, -1),
     creation_date |-> s.creation_date,
     trx_balance |-> s.trx_balance,
     total_transactions |-> s.total_transactions,
     trc20_transfers_in |-> s.trc20_transfers_in,
     trc20_transfers_out |-> s.trc20_transfers_out,
     total_trc20_transfers |-> s.trc20_transfers_in + s.trc20_transfers_out,
     api_success |-> s.api_success.usdt_balance,
     trc20_api_success |-> s.api_success.trc20_transfers]

RECURSIVE MasterFold(_, _, _)
MasterFold(rs, k, m) ==
    IF k > Len(rs) THEN m
    ELSE MasterFold(rs, k + 1,
            [m EXCEPT !.companies = CompanyAdd(@, rs[k]),
                      !.wallet_summaries = Append(@, MasterWalletSummary(rs[k])),
                      !.totals = TotalsAdd(@, rs[k])])

create_master_summary(all_results) ==
    MasterFold(all_results, 1, [MasterZero EXCEPT !.total_wallets = Len(all_results)])

\* analyze_all_wallets, lines 514-520
AnalyzerLoad ==
    /\ prog = "wallet_analyzer" /\ pc = "load"
    /\ wallet_data' = load_wallets(book)
    /\ upstream' = [w \in 1..Len(load_wallets(book)) |-> "none"]
    /\ pc' = "begin"
    /\ i' = 1
    /\ UNCHANGED <<prog, book, cur, balances, results, summary, counters, rows,
                   files, summaries_dir, sent, failed, requested, printed>>

\* one iteration of the loop of line 526 up to the first GET: the entry is
\* rejected (line 557), raises (line 563) or goes on to be analysed
AnalyzerBegin ==
    /\ prog = "wallet_analyzer" /\ pc = "begin" /\ i <= Len(wallet_data)
    /\ IF AnalyzerEntry(wallet_data[i]) = "analyze"
       THEN pc' = "balance" /\ i' = i /\ counters' = counters
       ELSE /\ pc' = "begin" /\ i' = i + 1
            /\ counters' = [counters EXCEPT !.failed_analyses = @ + 1]
    /\ UNCHANGED <<prog, book, wallet_data, cur, balances, results, summary,
                   rows, files, summaries_dir, sent, failed, requested, upstream,
                   printed>>

\* line 424
AnalyzerGetBalance ==
    /\ prog = "wallet_analyzer" /\ pc = "balance"
    /\ \E resp \in BalanceResponses :
         /\ cur' = [cur EXCEPT !.usdt_balance = get_usdt_trc20_balance(resp)]
         /\ failed' = IF BalanceFetchFailed(resp) THEN failed \cup {"tokens"}
                      ELSE failed
         /\ pc' = AfterBalance(get_usdt_trc20_balance(resp))
    /\ sent' = Append(sent, "tokens")
    /\ requested' = requested \cup {i}
    /\ UNCHANGED <<prog, book, wallet_data, i, balances, results, summary,
                   counters, rows, files, summaries_dir, upstream, printed>>

\* line 427
AnalyzerGetAccountInfo ==
    /\ prog = "wallet_analyzer" /\ pc = "account"
    /\ \E resp \in AccountResponses :
         /\ cur' = [cur EXCEPT !.account_info = get_account_info(resp)]
         /\ failed' = IF ~resp.ok THEN failed \cup {"account"} ELSE failed
         /\ pc' = AfterAccountInfo(get_account_info(resp))
    /\ sent' = Append(sent, "account")
    /\ requested' = requested \cup {i}
    /\ UNCHANGED <<prog, book, wallet_data, i, balances, results, summary,
                   counters, rows, files, summaries_dir, upstream, printed>>

\* line 428
AnalyzerGetTransactionHistory ==
    /\ prog = "wallet_analyzer" /\ pc = "history"
    /\ \E resp \in HistoryResponses :
         /\ cur' = [cur EXCEPT !.transaction_history = get_transaction_history(resp)]
         /\ failed' = IF ~resp.ok THEN failed \cup {"transaction"} ELSE failed
    /\ pc' = "creation"
    /\ sent' = Append(sent, "transaction")
    /\ requested' = requested \cup {i}
    /\ UNCHANGED <<prog, book, wallet_data, i, balances, results, summary,
                   counters, rows, files, summaries_dir, upstream, printed>>

\* lines 429-433: find_creation_date and the choice of the wallets to debug;
\* an exception of find_creation_date ends the wallet at line 563
AnalyzerFindCreationDate ==
    /\ prog = "wallet_analyzer" /\ pc = "creation"
    /\ LET d == find_creation_date(cur.transaction_history)
       IN  IF d.raised
           THEN /\ pc' = "begin" /\ i' = i + 1
                /\ counters' = [counters EXCEPT !.failed_analyses = @ + 1]
                /\ cur' = CurInit /\ sent' = <<>> /\ failed' = {}
           ELSE /\ pc' = AfterHistory(i, book) /\ i' = i
                /\ counters' = counters
                /\ cur' = [cur EXCEPT !.creation_date = d.value]
                /\ sent' = sent /\ failed' = failed
    /\ UNCHANGED <<prog, book, wallet_data, balances, results, summary, rows,
                   files, summaries_dir, requested, upstream, printed>>

\* debug_trc20_transfers, lines 215-254: its three test requests, each in a
\* try of its own, so that all three are sent whatever their outcomes
AnalyzerDebug ==
    /\ prog = "wallet_analyzer" /\ pc = "debug"
    /\ \E all_ok \in BOOLEAN :
         failed' = IF ~all_ok THEN failed \cup {"transfers"} ELSE failed
    /\ pc' = "trc20"
    /\ sent' = sent \o [k \in 1..DEBUG_PROBES |-> "transfers"]
    /\ requested' = requested \cup {i}
    /\ cur' = cur
    /\ UNCHANGED <<prog, book, wallet_data, i, balances, results, summary,
                   counters, rows, files, summaries_dir, upstream, printed>>

\* get_trc20_transfers, lines 270-297: the request with the trc20Id filter
AnalyzerGetTrc20 ==
    /\ prog = "wallet_analyzer" /\ pc = "trc20"
    /\ \E resp \in TransferResponses :
         /\ cur' = [cur EXCEPT !.trc20_transfers =
                        IF resp.raised THEN TrcNone ELSE FirstAttemptData(resp)]
         /\ failed' = IF resp.raised THEN failed \cup {"transfers"} ELSE failed
         /\ pc' = AfterFirstAttempt(resp)
    /\ sent' = Append(sent, "transfers")
    /\ requested' = requested \cup {i}
    /\ UNCHANGED <<prog, book, wallet_data, i, balances, results, summary,
                   counters, rows, files, summaries_dir, upstream, printed>>

\* get_trc20_transfers, lines 299-312: the request without the filter
AnalyzerFallback ==
    /\ prog = "wallet_analyzer" /\ pc = "fallback"
    /\ \E resp \in FallbackResponses :
         /\ cur' = [cur EXCEPT !.trc20_transfers = FallbackData(resp)]
         /\ failed' = IF resp.raised THEN failed \cup {"transfers"} ELSE failed
    /\ pc' = "finish"
    /\ sent' = Append(sent, "transfers")
    /\ requested' = requested \cup {i}
    /\ UNCHANGED <<prog, book, wallet_data, i, balances, results, summary,
                   counters, rows, files, summaries_dir, upstream, printed>>

\* lines 437-492 and 534-537: the result is built, kept and saved
AnalyzerFinish ==
    /\ prog = "wallet_analyzer" /\ pc = "finish"
    /\ results' = Append(results, WalletSummary(i, wallet_data[i], cur))
    /\ files' = files \cup {<<"raw_data", i>>, <<"summary", i>>}
    /\ counters' = [counters EXCEPT !.successful_analyses = @ + 1]
    /\ pc' = "begin"
    /\ i' = i + 1
    /\ cur' = CurInit /\ sent' = <<>> /\ failed' = {}
    /\ UNCHANGED <<prog, book, wallet_data, balances, summary, rows,
                   summaries_dir, requested, upstream, printed>>

\* main, lines 660-669: the master summary is created and written
AnalyzerSummary ==
    /\ prog = "wallet_analyzer" /\ pc = "begin" /\ i > Len(wallet_data)
    /\ summary' = create_master_summary(results)
    /\ files' = files \cup {<<"master_summary", 0>>}
    /\ pc' = "done"
    /\ UNCHANGED <<prog, book, wallet_data, i, cur, balances, results, counters,
                   rows, summaries_dir, sent, failed, requested, upstream,
                   printed>>

---------------------------------------------------------------------------
(* diagnostic.py: WalletDiagnostic, the run *)

\* lines 230-237: the figures of generate_summary_report, one wallet folded in
DiagSummaryZero ==
    [total_wallets |-> 0, successful_api_calls |-> 0, wallets_with_usdt |-> 0,
     total_usdt |-> Dec(0, 0)]

DiagSummaryAdd(s, r) ==
    LET b == r.usdt_details.usdt_balance
        truthy == b # None /\ ~IsZero(b)
    IN  [s EXCEPT
          !.total_wallets = @ + 1,
          !.successful_api_calls = IF r.usdt_details.api_success THEN @ + 1 ELSE @,
          !.wallets_with_usdt = IF truthy /\ IsPositive(b) THEN @ + 1 ELSE @,
          !.total_usdt = IF truthy THEN DecAdd(@, b) ELSE DecAdd(@, Dec(0, 0))]

RECURSIVE DiagFold(_, _, _)
DiagFold(rs, k, s) ==
    IF k > Len(rs) THEN s ELSE DiagFold(rs, k + 1, DiagSummaryAdd(s, rs[k]))

generate_summary_report(rs) == DiagFold(rs, 1, DiagSummaryZero)

RECURSIVE DiagCompaniesFold(_, _, _)
DiagCompaniesFold(rs, k, cs) ==
    IF k > Len(rs) THEN cs
    ELSE DiagCompaniesFold(rs, k + 1,
             CompanyStatsAdd(cs, rs[k].company, rs[k].usdt_details.usdt_balance))

\* generate_summary_report, lines 245-258: the BY COMPANY listing
DiagCompanies(rs) == SortCompanies(DiagCompaniesFold(rs, 1, <<>>))

\* lines 277-281: result.copy() is shallow, so the balance of the result kept
\* in memory becomes its text when it is truthy
save_detailed_report(r) ==
    LET b == r.usdt_details.usdt_balance
    IN  IF b # None /\ ~IsZero(b)
        THEN [r EXCEPT !.usdt_details.usdt_balance = DecStr(b)]
        ELSE r

\* load_and_check_wallets, lines 150-160: a missing or unparsable document
\* gives no results; any other error of open() leaves main
DiagLoad ==
    /\ prog = "diagnostic" /\ pc = "load"
    /\ wallet_data' = IF book.status = "ok" THEN book.entries ELSE <<>>
    /\ upstream' = [w \in 1..Len(book.entries) |-> "none"]
    /\ pc' = IF book.status = "unreadable" THEN "crashed" ELSE "begin"
    /\ i' = 1
    /\ UNCHANGED <<prog, book, cur, balances, results, summary, counters, rows,
                   files, summaries_dir, sent, failed, requested, printed>>

\* lines 164-173: the entry is read (an entry that is not an object raises
\* out of the loop and out of main), then rejected or checked
DiagBegin ==
    /\ prog = "diagnostic" /\ pc = "begin" /\ i <= Len(wallet_data)
    /\ LET info == wallet_data[i]
       IN  IF ~info.isObj THEN pc' = "crashed" /\ i' = i
           ELSE IF ~Truthy(info.address) \/ ~validate_trc20_address(info.address)
           THEN pc' = "begin" /\ i' = i + 1
           ELSE pc' = "balance" /\ i' = i
    /\ UNCHANGED <<prog, book, wallet_data, cur, balances, results, summary,
                   counters, rows, files, summaries_dir, sent, failed, requested,
                   upstream, printed>>

\* line 181
DiagGetBalance ==
    /\ prog = "diagnostic" /\ pc = "balance"
    /\ \E resp \in BalanceResponses :
         /\ cur' = [cur EXCEPT !.usdt_details = get_usdt_balance_detailed(resp)]
         /\ failed' = IF get_usdt_balance_detailed(resp).usdt_balance = None
                      THEN failed \cup {"tokens"} ELSE failed
         /\ upstream' = [upstream EXCEPT ![i] = ResponseKind(resp)]
    /\ pc' = "account"
    /\ sent' = Append(sent, "tokens")
    /\ requested' = requested \cup {i}
    /\ UNCHANGED <<prog, book, wallet_data, i, balances, results, summary,
                   counters, rows, files, summaries_dir, printed>>

\* lines 184-191
DiagGetAccount ==
    /\ prog = "diagnostic" /\ pc = "account"
    /\ \E resp \in AccountCheckResponses :
         results' = Append(results,
                       [wallet |-> i, company |-> CompanyOf(wallet_data[i]),
                        usdt_details |-> cur.usdt_details,
                        account_info |-> check_account_info(resp)])
    /\ pc' = "begin"
    /\ i' = i + 1
    /\ cur' = CurInit /\ sent' = <<>> /\ failed' = {}
    /\ requested' = requested \cup {i}
    /\ UNCHANGED <<prog, book, wallet_data, balances, summary, counters, rows,
                   files, summaries_dir, upstream, printed>>

\* main, lines 301-307: the summary, and the report file if there are results
DiagReport ==
    /\ prog = "diagnostic" /\ pc = "begin" /\ i > Len(wallet_data)
    /\ IF results = <<>>
       THEN /\ summary' = summary /\ files' = files /\ results' = results
            /\ printed' = printed
       ELSE /\ summary' = generate_summary_report(results)
            /\ printed' = DiagCompanies(results)
            /\ files' = files \cup {<<"wallet_diagnostic", 0>>}
            /\ results' = [k \in 1..Len(results) |-> save_detailed_report(results[k])]
    /\ pc' = "done"
    /\ UNCHANGED <<prog, book, wallet_data, i, cur, balances, counters, rows,
                   summaries_dir, sent, failed, requested, upstream>>

---------------------------------------------------------------------------
(* csv_analyzer.py: OutputAnalyzer *)

\* one *_summary.json of the summaries directory. The wallet_id of a document
\* is the position of its file ("own"), or that of the first file when the
\* document is a copy kept under another file name ("first"). The files a
\* run starts from come from analyses whose account, history and transfer
\* calls succeeded
SummaryFile(readable, has_id, company, ok, usdt, trx, total) ==
    [readable |-> readable, has_id |-> has_id, wallet_id |-> "own",
     company |-> company,
     usdt_api_success |-> ok, usdt_balance |-> usdt, trx_balance |-> trx,
     total_transactions |-> total, account_api_success |-> TRUE,
     transaction_history_api_success |-> TRUE,
     trc20_transfers_api_success |-> TRUE]

SummaryFiles ==
    {SummaryFile(TRUE, TRUE, c, ok, usdt, trx, total) :
        c \in {"A", "B"}, ok \in BOOLEAN, usdt \in {Str(0, -1), Str(25, -1)},
        trx \in {Str(0, -1), Str(1, -6)}, total \in {0, 3}}
    \cup {SummaryFile(FALSE, FALSE, "A", FALSE, Str(0, -1), Str(0, -1), 0),
          SummaryFile(TRUE, FALSE, "A", TRUE, Str(25, -1), Str(0, -1), 0),
          [SummaryFile(TRUE, TRUE, "B", TRUE, Str(25, -1), Str(0, -1), 0)
              EXCEPT !.wallet_id = "first"]}

\* line 50: data.get('wallet_id') of the document in file k
WalletIdOf(dir, k) == IF dir[k].wallet_id = "first" THEN 1 ELSE k

\* every document kept as an entry of its own
SummariesAppend(summaries, wallet_id, data) ==
    Append(summaries, [wallet_id |-> wallet_id, summary |-> data])

\* line 52: summaries[wallet_id] = data, a dict kept in insertion order
SummariesPut(summaries, wallet_id, data) ==
    IF \E j \in 1..Len(summaries) : summaries[j].wallet_id = wallet_id
    THEN [summaries EXCEPT
            ![CHOOSE j \in 1..Len(summaries) : summaries[j].wallet_id = wallet_id]
                = [wallet_id |-> wallet_id, summary |-> data]]
    ELSE Append(summaries, [wallet_id |-> wallet_id, summary |-> data])

\* lines 47-58: the loop over the files, from file k on
RECURSIVE LoadFiles(_, _, _)
LoadFiles(dir, k, summaries) ==
    IF k > Len(dir) THEN summaries
    ELSE LoadFiles(dir, k + 1,
                   IF dir[k].readable /\ dir[k].has_id
                   THEN SummariesPut(summaries, WalletIdOf(dir, k), dir[k])
                   ELSE summaries)

\* load_summary_files, lines 36-61: the summaries loaded, in directory order
load_summary_files(dir, k) == LoadFiles(dir, k, <<>>)

\* the classification with the balance looked at before the fetch outcome
WalletStatusBalanceFirst(usdt_api_success, usdt_balance, trx_balance, total_transactions) ==
    IF IsPositive(usdt_balance) THEN "Has USDT Balance"
    ELSE IF ~usdt_api_success THEN "API Failed"
    ELSE IF IsPositive(trx_balance) \/ total_transactions > 0
         THEN "Active (No USDT)"
         ELSE "Empty/Inactive"

\* the classification with activity read from the TRX balance alone
WalletStatusByTrx(usdt_api_success, usdt_balance, trx_balance, total_transactions) ==
    IF usdt_api_success
    THEN IF IsPositive(usdt_balance) THEN "Has USDT Balance"
         ELSE IF IsPositive(trx_balance) THEN "Active (No USDT)"
              ELSE "Empty/Inactive"
    ELSE "API Failed"

\* lines 136-145
WalletStatus(usdt_api_success, usdt_balance, trx_balance, total_transactions) ==
    IF usdt_api_success
    THEN IF IsPositive(usdt_balance) THEN "Has USDT Balance"
         ELSE IF IsPositive(trx_balance) \/ total_transactions > 0
              THEN "Active (No USDT)"
              ELSE "Empty/Inactive"
    ELSE "API Failed"

\* lines 92-97
UsdtBalanceNotes(usdt_api_success, usdt_balance) ==
    IF usdt_api_success /\ IsPositive(usdt_balance) THEN "from BalanceService"
    ELSE IF usdt_api_success /\ IsZero(usdt_balance) THEN "no USDT tokens found"
    ELSE "API call failed"

create_csv_row(wallet_id, summary_data) ==
    [wallet |-> wallet_id,
     company |-> summary_data.company,
     usdt_balance |-> summary_data.usdt_balance,
     usdt_balance_notes |->
         UsdtBalanceNotes(summary_data.usdt_api_success, summary_data.usdt_balance),
     trx_balance |-> summary_data.trx_balance,
     total_transactions |-> summary_data.total_transactions,
     usdt_api_success |-> IF summary_data.usdt_api_success THEN "Yes" ELSE "No",
     account_api_success |->
         IF summary_data.account_api_success THEN "Yes" ELSE "No",
     transaction_history_api_success |->
         IF summary_data.transaction_history_api_success THEN "Yes" ELSE "No",
     trc20_transfers_api_success |->
         IF summary_data.trc20_transfers_api_success THEN "Yes" ELSE "No",
     wallet_status |->
         WalletStatus(summary_data.usdt_api_success, summary_data.usdt_balance,
                      summary_data.trx_balance, summary_data.total_transactions)]

\* wallet_analyzer.save_wallet_data, lines 503-509: the summary of one
\* analysis as the document <wallet_id>_summary.json
save_wallet_data(s) ==
    [SummaryFile(TRUE, TRUE, s.company, s.api_success.usdt_balance, s.usdt_balance,
                 s.trx_balance, s.total_transactions)
        EXCEPT !.account_api_success = s.api_success.account_info,
               !.transaction_history_api_success = s.api_success.transaction_history,
               !.trc20_transfers_api_success = s.api_success.trc20_transfers]

\* the place of a wallet that has no summary file
NoSummaryFile == SummaryFile(FALSE, FALSE, "A", FALSE, Str(0, -1), Str(0, -1), 0)

\* the summaries directory after a run of wallet_analyzer, by wallet id
SummariesWritten(n, rs) ==
    [w \in 1..n |->
        IF \E k \in 1..Len(rs) : rs[k].wallet = w
        THEN save_wallet_data(rs[CHOOSE k \in 1..Len(rs) : rs[k].wallet = w])
        ELSE NoSummaryFile]

\* csv_analyzer started on the output directory a finished run of
\* wallet_analyzer has left (main, lines 272-276)
CsvAfterAnalyzer ==
    /\ prog = "wallet_analyzer" /\ pc = "done"
    /\ prog' = "csv_analyzer"
    /\ pc' = "load"
    /\ summaries_dir' = SummariesWritten(Len(wallet_data), results)
    /\ UNCHANGED <<book, wallet_data, i, cur, balances, results, summary, counters,
                   rows, files, sent, failed, requested, upstream, printed>>

\* analyze_and_create_csv, lines 170-173, and main, lines 292-293: without a
\* loaded summary the ValueError ends the run
CsvLoad ==
    /\ prog = "csv_analyzer" /\ pc = "load"
    /\ results' = load_summary_files(summaries_dir, 1)
    /\ pc' = IF load_summary_files(summaries_dir, 1) = <<>> THEN "failed" ELSE "rows"
    /\ UNCHANGED <<book, prog, wallet_data, i, cur, balances, summary, counters,
                   rows, files, summaries_dir, sent, failed, requested, upstream,
                   printed>>

\* the balances of all rows summed, whatever their fetch outcome
RECURSIVE CsvBalanceSumAll(_, _)
CsvBalanceSumAll(csv_rows, k) ==
    IF k > Len(csv_rows) THEN Dec(0, 0)
    ELSE DecAdd(csv_rows[k].usdt_balance, CsvBalanceSumAll(csv_rows, k + 1))

\* lines 238-240: sum(float(row['usdt_balance'])) over the rows whose
\* usdt_api_success is 'Yes', from row k on
RECURSIVE CsvBalanceSum(_, _)
CsvBalanceSum(csv_rows, k) ==
    IF k > Len(csv_rows) THEN Dec(0, 0)
    ELSE IF csv_rows[k].usdt_api_success = "Yes"
         THEN DecAdd(csv_rows[k].usdt_balance, CsvBalanceSum(csv_rows, k + 1))
         ELSE CsvBalanceSum(csv_rows, k + 1)

\* print_csv_summary, lines 229-247: the success count and the balance
\* summary, which is printed only when a row has a successful fetch
print_csv_summary(csv_rows) ==
    LET successful_usdt_rows ==
            {k \in 1..Len(csv_rows) : csv_rows[k].usdt_api_success = "Yes"}
    IN  [total_wallets |-> Len(csv_rows),
         usdt_success |-> Cardinality(successful_usdt_rows),
         total_usdt |-> IF successful_usdt_rows # {}
                        THEN CsvBalanceSum(csv_rows, 1) ELSE None,
         wallets_with_usdt |->
             Cardinality({k \in successful_usdt_rows :
                             IsPositive(csv_rows[k].usdt_balance)})]

\* analyze_and_create_csv, lines 176-207: the rows, sorted, the file and the
\* printed summary
CsvWrite ==
    /\ prog = "csv_analyzer" /\ pc = "rows"
    /\ rows' = SortRows([k \in 1..Len(results) |->
                    create_csv_row(results[k].wallet_id, results[k].summary)])
    /\ printed' = print_csv_summary(rows')
    /\ files' = files \cup {<<"wallet_analysis_consolidated.csv", 0>>}
    /\ pc' = "done"
    /\ UNCHANGED <<book, prog, wallet_data, i, cur, balances, results, summary,
                   counters, summaries_dir, sent, failed, requested, upstream>>

---------------------------------------------------------------------------
(* The runs *)

Programs == {"balance_checker", "wallet_analyzer", "diagnostic"}

NoBook == [status |-> "missing", entries |-> <<>>]

Init ==
    /\ \/ prog \in Programs /\ book \in Books /\ summaries_dir = <<>>
       \/ /\ prog = "csv_analyzer" /\ book = NoBook
          /\ summaries_dir \in SeqsUpTo(SummaryFiles, MaxSummaries)
    /\ pc = "load"
    /\ wallet_data = <<>>
    /\ i = 1
    /\ cur = CurInit
    /\ balances = <<>>
    /\ results = <<>>
    /\ summary = CheckerSummaryZero
    /\ counters = [successful_analyses |-> 0, failed_analyses |-> 0]
    /\ rows = <<>>
    /\ files = {}
    /\ sent = <<>>
    /\ failed = {}
    /\ requested = {}
    /\ upstream = <<>>
    /\ printed = <<>>

Next ==
    \/ CheckerLoad
    \/ CheckerFetch
    \/ CheckerAggregate
    \/ CheckerReport
    \/ AnalyzerLoad
    \/ AnalyzerBegin
    \/ AnalyzerGetBalance
    \/ AnalyzerGetAccountInfo
    \/ AnalyzerGetTransactionHistory
    \/ AnalyzerFindCreationDate
    \/ AnalyzerDebug
    \/ AnalyzerGetTrc20
    \/ AnalyzerFallback
    \/ AnalyzerFinish
    \/ AnalyzerSummary
    \/ DiagLoad
    \/ DiagBegin
    \/ DiagGetBalance
    \/ DiagGetAccount
    \/ DiagReport
    \/ CsvAfterAnalyzer
    \/ CsvLoad
    \/ CsvWrite

Spec == Init /\ [][Next]_vars

\* The environment of a run of wallet_analyzer: the document wallets.json is
\* removed from disk while the wallets are being analysed
BookRewritten ==
    /\ prog = "wallet_analyzer" /\ pc \notin {"load", "done"}
    /\ book.status = "ok"
    /\ book' = NoBook
    /\ UNCHANGED <<prog, pc, wallet_data, i, cur, balances, results, summary,
                   counters, rows, files, summaries_dir, sent, failed, requested,
                   upstream, printed>>

NextRewritten == Next \/ BookRewritten

\* the runs, with a document that may change under a running wallet_analyzer
SpecRewritten == Init /\ [][NextRewritten]_vars

\* wallet_analyzer.py, analyze_all_wallets, lines 531-563, when save_wallet_data
\* raises (the output directory cannot be written): the result was stored in
\* all_results on line 533 before the save on line 534, the increment of
\* line 535 is skipped and the handler of line 561 counts a failure
AnalyzerSaveFails ==
    /\ prog = "wallet_analyzer" /\ pc = "finish"
    /\ results' = Append(results, WalletSummary(i, wallet_data[i], cur))
    /\ counters' = [counters EXCEPT !.failed_analyses = @ + 1]
    /\ pc' = "begin"
    /\ i' = i + 1
    /\ cur' = CurInit /\ sent' = <<>> /\ failed' = {}
    /\ UNCHANGED <<prog, book, wallet_data, balances, summary, rows, files,
                   summaries_dir, requested, upstream, printed>>

NextSaveFails == Next \/ AnalyzerSaveFails

\* the runs, with an output directory that may refuse a write
SpecSaveFails == Init /\ [][NextSaveFails]_vars

---------------------------------------------------------------------------
(* Single calls.  One behaviour is one call of one function on one         *)
(* argument: prog names the function, cur holds the argument and results   *)
(* what the call returned.                                                 *)

\* arguments of validate_trc20_address: None, a number, a list of 34 items
\* whose first is 'T', the empty text, and texts by first character and
\* length
CallAddresses ==
    {AddrMissing, Addr(TRUE, FALSE, "", 0), Addr(TRUE, FALSE, "T", ADDRESS_LENGTH),
     Addr(TRUE, TRUE, "", 0)}
    \cup {Addr(TRUE, TRUE, f, n) :
             f \in {"T", "t", "X"},
             n \in {1, ADDRESS_LENGTH - 1, ADDRESS_LENGTH, ADDRESS_LENGTH + 1}}

\* raw balances of the USDT entry of a token list, in units of 10^-6
CallRawBalances ==
    {0, 1, 5, 100, 1234567, 1500000, 10000000, 2000000000, -5000000}

\* arguments of get_usdt_trc20_balance: the response to its GET, a token
\* list that holds the USDT entry alone or after another token
CallBalanceResponses ==
    {[cond |-> "ok", hasData |-> TRUE, data |-> d] :
        d \in {<<Token(USDT_CONTRACT, TRUE, b)>> : b \in CallRawBalances}
           \cup {<<Token("OTHER", TRUE, 5), Token(USDT_CONTRACT, TRUE, b)>> :
                    b \in CallRawBalances}}

\* entries of a transfer list: the two addresses in several spellings of
\* the wallet's own address and of another one, under the field names
\* to_address / from_address or toAddress / fromAddress
CallTransfers ==
    {Tr(to, from) : to \in {"Self", "self", "OTHER"}, from \in {"Self", "self", "OTHER"}}
    \cup {[to_address |-> "", from_address |-> "", toAddress |-> to, fromAddress |-> from] :
             to \in {"self", "Other"}, from \in {"SELF", "Other"}}

\* arguments of count_trc20_transfers: no response (the request failed), or
\* the body of a successful request with its list of transfers, which may be
\* empty; and the wallet's address
CallTransferData ==
    {[trc20_data |-> TrcNone, wallet_address |-> "SELF"]}
    \cup {[trc20_data |-> [some |-> TRUE, key |-> "token_transfers", transfers |-> ts],
            wallet_address |-> "SELF"] :
              ts \in SeqsUpTo(CallTransfers, MaxTransfers)}

\* entries of a transaction history: without a timestamp, with timestamp 0,
\* and with timestamps (ms) on both sides of midnight in GMT+7
CallTransactions ==
    {Tx(FALSE, TRUE, 0), Tx(TRUE, TRUE, 0), Tx(TRUE, TRUE, 61199000),
     Tx(TRUE, TRUE, 61200000), Tx(TRUE, TRUE, 86400000)}

\* arguments of find_creation_date: None, a body without 'data', and bodies
\* with a list of entries
CallHistories ==
    {HistoryNone, [some |-> TRUE, hasData |-> FALSE, data |-> <<>>]}
    \cup {[some |-> TRUE, hasData |-> TRUE, data |-> txs] :
             txs \in SeqsUpTo(CallTransactions, MaxHistory)}

\* the wallets of an aggregation: valid entries of the address book, with
\* or without a company, and the balance fetched for each (None: failed)
CallOutcomes ==
    {[info |-> WalletInfo(AddrValid, c), balance |-> b] :
        c \in {"B", "<missing>"}, b \in {None, Dec(0, -1), Dec(15, -1)}}

Orders(n) ==
    {f \in [1..n -> 1..n] : \A j, k \in 1..n : f[j] = f[k] => j = k}

\* arguments of the aggregations: the wallets in the order of one address
\* book, and a second order of the same wallets
CallAggregations ==
    {a \in [entries : SeqsUpTo(CallOutcomes, MaxAggregated),
            order : UNION {Orders(n) : n \in 0..MaxAggregated}] :
        Len(a.order) = Len(a.entries)}

Reordered(es, f) == [k \in 1..Len(es) |-> es[f[k]]]

\* check_all_wallets, lines 190-228, and print_summary on its result, for
\* wallets es in document order
CheckAll(es) ==
    LET data == [k \in 1..Len(es) |-> es[k].info]
        bs == [k \in 1..Len(es) |-> [wallet |-> k, balance |-> es[k].balance]]
        rs == [k \in 1..Len(es) |-> WalletResult(data, bs[k])]
    IN  [summary |-> CheckerFold(bs, 1, CheckerSummaryZero),
         total_wallets |-> Len(es),
         companies |-> print_summary(rs)]

\* analyze_all_wallets and create_master_summary for wallets es in document
\* order, each analysed with the balance fetched and no other data
AnalyzeAll(es) ==
    create_master_summary(
        [k \in 1..Len(es) |->
            WalletSummary(k, es[k].info, [CurInit EXCEPT !.usdt_balance = es[k].balance])])

\* load_and_check_wallets and generate_summary_report (diagnostic.py) for
\* wallets es in document order
DiagnoseAll(es) ==
    LET rs == [k \in 1..Len(es) |->
                 [wallet |-> k, company |-> CompanyOf(es[k].info),
                  usdt_details |-> [DetailsInit EXCEPT
                                      !.usdt_balance = es[k].balance,
                                      !.api_success = es[k].balance # None]]]
    IN  [summary |-> generate_summary_report(rs), companies |-> DiagCompanies(rs)]

\* arguments of generate_summary_report: the wallets in one order
CallDiagnoses == {a \in CallAggregations : \A k \in 1..Len(a.order) : a.order[k] = k}

\* the transfer data fetched for a wallet of an analysis: none (the request
\* failed), an empty list, and lists of incoming, outgoing and foreign
\* transfers
CallTransferOutcomes ==
    {TrcNone}
    \cup {[some |-> TRUE, key |-> "token_transfers", transfers |-> ts] :
             ts \in {<<>>, <<Tr("SELF", "OTHER")>>, <<Tr("OTHER", "self")>>,
                     <<Tr("Self", "OTHER"), Tr("OTHER", "Self")>>,
                     <<Tr("OTHER", "OTHER")>>}}

\* arguments of analyze_all_wallets: for every wallet of the book the
\* balance and the transfer data fetched for it
CallAnalyses ==
    {[entries |-> es] :
        es \in SeqsUpTo({[info |-> WalletInfo(AddrValid, "B"), balance |-> Dec(15, -1),
                          trc20_transfers |-> t] : t \in CallTransferOutcomes},
                        MaxAggregated)}

\* analyze_all_wallets, lines 526-535, and create_master_summary over what
\* it returned
AnalyzeTransfers(es) ==
    LET all_results ==
            [k \in 1..Len(es) |->
                WalletSummary(k, es[k].info,
                              [CurInit EXCEPT !.usdt_balance = es[k].balance,
                                              !.trc20_transfers = es[k].trc20_transfers])]
    IN  [all_results |-> all_results, master |-> create_master_summary(all_results)]

Functions ==
    {"validate_trc20_address", "get_usdt_trc20_balance", "count_trc20_transfers",
     "find_creation_date", "check_all_wallets", "create_master_summary",
     "generate_summary_report", "analyze_all_wallets"}

Arguments(fn) ==
    CASE fn = "validate_trc20_address" -> CallAddresses
      [] fn = "get_usdt_trc20_balance" -> CallBalanceResponses
      [] fn = "count_trc20_transfers" -> CallTransferData
      [] fn = "find_creation_date" -> CallHistories
      [] fn = "check_all_wallets" -> CallAggregations
      [] fn = "create_master_summary" -> CallAggregations
      [] fn = "generate_summary_report" -> CallDiagnoses
      [] fn = "analyze_all_wallets" -> CallAnalyses

CallReturns(value) ==
    /\ pc = "call"
    /\ results' = value
    /\ pc' = "returned"
    /\ UNCHANGED <<prog, book, wallet_data, i, cur, balances, summary, counters,
                   rows, files, summaries_dir, sent, failed, requested, upstream,
                   printed>>

CallValidate ==
    /\ prog = "validate_trc20_address"
    /\ CallReturns(validate_trc20_address(cur))

CallGetBalance ==
    /\ prog = "get_usdt_trc20_balance"
    /\ CallReturns(get_usdt_trc20_balance(cur))

CallCountTransfers ==
    /\ prog = "count_trc20_transfers"
    /\ CallReturns(count_trc20_transfers(cur.trc20_data, cur.wallet_address))

CallFindCreationDate ==
    /\ prog = "find_creation_date"
    /\ CallReturns(find_creation_date(cur))

\* the aggregation of the same wallets in two orders
CallCheckAll ==
    /\ prog = "check_all_wallets"
    /\ CallReturns([first |-> CheckAll(cur.entries),
                    second |-> CheckAll(Reordered(cur.entries, cur.order))])

CallMasterSummary ==
    /\ prog = "create_master_summary"
    /\ CallReturns([first |-> AnalyzeAll(cur.entries),
                    second |-> AnalyzeAll(Reordered(cur.entries, cur.order))])

CallDiagSummary ==
    /\ prog = "generate_summary_report"
    /\ CallReturns(DiagnoseAll(cur.entries))

CallAnalyzeAll ==
    /\ prog = "analyze_all_wallets"
    /\ CallReturns(AnalyzeTransfers(cur.entries))

InitCalls ==
    /\ prog \in Functions
    /\ cur \in Arguments(prog)
    /\ pc = "call"
    /\ book = NoBook
    /\ summaries_dir = <<>>
    /\ wallet_data = <<>>
    /\ i = 1
    /\ balances = <<>>
    /\ results = <<>>
    /\ summary = CheckerSummaryZero
    /\ counters = [successful_analyses |-> 0, failed_analyses |-> 0]
    /\ rows = <<>>
    /\ files = {}
    /\ sent = <<>>
    /\ failed = {}
    /\ requested = {}
    /\ upstream = <<>>
    /\ printed = <<>>

NextCalls ==
    \/ CallValidate
    \/ CallGetBalance
    \/ CallCountTransfers
    \/ CallFindCreationDate
    \/ CallCheckAll
    \/ CallMasterSummary
    \/ CallDiagSummary
    \/ CallAnalyzeAll

Calls == InitCalls /\ [][NextCalls]_vars

---------------------------------------------------------------------------
(* Properties *)

\* a balance in millionths of a USDT
Micro(d) == d.coef * Pow10(d.exp + USDT_DECIMALS)

RECURSIVE SumOfBalances(_, _)
SumOfBalances(bal, S) ==
    IF S = {} THEN 0
    ELSE LET k == CHOOSE x \in S : TRUE
         IN  Micro(bal[k]) + SumOfBalances(bal, S \ {k})

CountOf(seq, x) == Cardinality({k \in 1..Len(seq) : seq[k] = x})

AddressWellFormed(a) ==
    a.present /\ a.isStr /\ a.first = "T" /\ a.len = ADDRESS_LENGTH

\* C1: every loaded summary gets exactly one CSV row, and its label is
\* 'API Failed' when the balance fetch did not succeed, whatever the other
\* fields; else 'Has USDT Balance' when the balance is positive; else
\* 'Active (No USDT)' when the TRX balance or the transaction count is
\* positive; else 'Empty/Inactive'.
C1_Classification ==
    (prog = "csv_analyzer" /\ pc = "done") =>
        \A k \in 1..Len(results) :
            LET d == results[k].summary
                mine == {r \in 1..Len(rows) : rows[r].wallet = results[k].wallet_id}
            IN  /\ Cardinality(mine) = 1
                /\ \A r \in mine :
                     /\ ~d.usdt_api_success => rows[r].wallet_status = "API Failed"
                     /\ (d.usdt_api_success /\ d.usdt_balance.coef > 0)
                            => rows[r].wallet_status = "Has USDT Balance"
                     /\ (d.usdt_api_success /\ d.usdt_balance.coef <= 0
                         /\ (d.trx_balance.coef > 0 \/ d.total_transactions > 0))
                            => rows[r].wallet_status = "Active (No USDT)"
                     /\ (d.usdt_api_success /\ d.usdt_balance.coef <= 0
                         /\ d.trx_balance.coef <= 0 /\ d.total_transactions <= 0)
                            => rows[r].wallet_status = "Empty/Inactive"

\* a failed fetch recorded beside a positive balance, TRX and transactions
C1_Witness ==
    /\ prog = "csv_analyzer" /\ pc = "done" /\ Len(rows) = 2
    /\ \E r \in 1..Len(rows) :
          /\ rows[r].wallet_status = "API Failed"
          /\ rows[r].usdt_balance.coef > 0
          /\ rows[r].trx_balance.coef > 0
          /\ rows[r].total_transactions > 0
    /\ \E r \in 1..Len(rows) : rows[r].wallet_status = "Active (No USDT)"

\* C2: the reported total USDT balance is the sum of the balances of exactly
\* the wallets whose fetch succeeded, and only those are counted as
\* successful checks; in check_all_wallets and in create_master_summary.
C2_TotalIsSumOfSuccessful ==
    /\ (prog = "balance_checker" /\ pc \in {"report", "done"}) =>
          LET ok == {k \in 1..Len(results) : results[k].success}
              bal == [k \in 1..Len(results) |-> results[k].usdt_balance]
          IN  /\ Micro(summary.total_usdt_balance) = SumOfBalances(bal, ok)
              /\ summary.successful_checks = Cardinality(ok)
              /\ summary.failed_checks = Len(results) - Cardinality(ok)
    /\ (prog = "wallet_analyzer" /\ pc = "done") =>
          LET ok == {k \in 1..Len(results) : results[k].api_success.usdt_balance}
              bal == [k \in 1..Len(results) |-> results[k].usdt_balance_decimal]
          IN  /\ Micro(summary.totals.total_usdt_balance) = SumOfBalances(bal, ok)
              /\ summary.totals.successful_balance_checks = Cardinality(ok)

\* a failed wallet beside a wallet holding USDT
C2_Witness ==
    /\ prog = "balance_checker" /\ pc = "done"
    /\ \E k \in 1..Len(results) : ~results[k].success
    /\ \E k \in 1..Len(results) :
          results[k].success /\ results[k].usdt_balance.coef > 0
    /\ summary.total_usdt_balance.coef > 0
    /\ summary.failed_checks = 1

\* C3: in every wallet result the balance is None exactly when the upstream
\* balance call failed, and a numeric zero exactly when the call succeeded
\* and the wallet holds no USDT; the emitted row keeps the two apart.
C3_AbsentIffFailed ==
    (prog = "balance_checker" /\ pc \in {"report", "done"}) =>
        /\ \A k \in 1..Len(results) :
              LET b == results[k].usdt_balance
                  u == upstream[results[k].wallet]
              IN  /\ (b = None) <=> (u \in {"request_failed", "malformed"})
                  /\ (b # None /\ b.coef = 0) <=> (u = "absent")
        /\ \A r \in 1..Len(rows) :
              upstream[rows[r].wallet] \in {"request_failed", "malformed"}
                  => rows[r].usdt_balance.coef # 0 \/ rows[r].usdt_balance = None

\* C4: every failure condition of the balance fetch (time-out, transport
\* error, non-2xx status, malformed body) yields None, never a zero balance.
C4_FailureYieldsNone ==
    prog = "balance_checker" =>
        \A k \in 1..Len(balances) :
            upstream[balances[k].wallet] \in {"request_failed", "malformed"}
                => balances[k].balance = None

\* C5: a successful response whose token list has no USDT entry (the empty
\* list included) gives a successful balance of exactly zero, in
\* BalanceService and in WalletDiagnostic.
C5_AbsentAssetIsZero ==
    /\ prog = "balance_checker" =>
          /\ \A k \in 1..Len(balances) :
                upstream[balances[k].wallet] = "absent"
                    => /\ balances[k].balance.tag = "Decimal"
                       /\ balances[k].balance.coef = 0
          /\ \A k \in 1..Len(results) :
                upstream[results[k].wallet] = "absent" => results[k].success
    /\ prog = "diagnostic" =>
          /\ (pc = "account" /\ upstream[i] = "absent")
                => /\ cur.usdt_details.usdt_balance.tag = "Decimal"
                   /\ cur.usdt_details.usdt_balance.coef = 0
                   /\ cur.usdt_details.api_success
          /\ \A k \in 1..Len(results) :
                upstream[results[k].wallet] = "absent"
                    => /\ results[k].usdt_details.usdt_balance.tag = "Decimal"
                       /\ results[k].usdt_details.usdt_balance.coef = 0
                       /\ results[k].usdt_details.api_success
                       /\ results[k].usdt_details.error = "None"

\* a finished check of two wallets, neither of which holds the asset
C5_Witness ==
    /\ prog = "balance_checker" /\ pc = "done" /\ Len(results) = 2
    /\ \A k \in 1..Len(results) :
          upstream[results[k].wallet] = "absent" /\ results[k].success
    /\ summary.successful_checks = 2 /\ summary.wallets_with_balance = 0

Endpoints == {"tokens", "account", "transaction", "transfers"}

C7_NoRequestForInvalidAddress ==
    \A w \in requested :
        /\ w \in 1..Len(wallet_data)
        /\ wallet_data[w].isObj
        /\ AddressWellFormed(wallet_data[w].address)

\* a finished run with a rejected wallet and a requested one
C7_Witness ==
    /\ pc = "done" /\ requested # {}
    /\ \E w \in 1..Len(wallet_data) :
          /\ wallet_data[w].isObj /\ wallet_data[w].address.present
          /\ ~AddressWellFormed(wallet_data[w].address)
          /\ w \notin requested

\* C8: no error of one wallet's processing, a malformed entry of the address
\* book included, ends the run: the run stops early only when there is no
\* usable address book.
C8_ErrorsStayInTheWallet ==
    pc = "crashed" => load_wallets(book) = <<>>

\* C9: with an empty, missing or unreadable address book no request is sent
\* and no output file is written.
C9_NoBookNoOutput ==
    (prog \in Programs /\ load_wallets(book) = <<>>) =>
        requested = {} /\ files = {}

RequestsInOrder(s) ==
    /\ Len(s) >= 4
    /\ s[1] = "tokens" /\ s[2] = "account" /\ s[3] = "transaction"
    /\ \A k \in 4..Len(s) : s[k] = "transfers"

C11_ValidateIff ==
    (prog = "validate_trc20_address" /\ pc = "returned") =>
        /\ results \in BOOLEAN
        /\ results <=> (cur.present /\ cur.isStr /\ cur.first = "T" /\ cur.len = 34)

\* a list of 34 items was refused, and so was a 35-character text in 'T'
C11_Witness ==
    /\ prog = "validate_trc20_address" /\ pc = "returned"
    /\ results = FALSE
    /\ cur.present /\ cur.first = "T"
    /\ \/ ~cur.isStr /\ cur.len = 34
       \/ cur.isStr /\ cur.len = 35

C13_BalancesNonNegative ==
    (prog = "balance_checker" /\ pc \in {"report", "done"}) =>
        /\ \A k \in 1..Len(results) :
              results[k].usdt_balance # None => results[k].usdt_balance.coef >= 0
        /\ summary.total_usdt_balance.coef >= 0
        /\ \A k \in 1..Len(rows) : rows[k].balance_numeric.coef >= 0

(* C14: a wallet whose balance fetch succeeded with a zero balance and      *)
(* whose transaction count is nonzero is classified 'Active (No USDT)',     *)
(* never 'Empty/Inactive', whatever its TRX balance and whichever of the    *)
(* other endpoint calls failed.                                             *)
C14_ZeroBalanceWithTransactionsIsActive ==
    (prog = "csv_analyzer" /\ pc = "done") =>
        \A k \in 1..Len(rows) :
            (/\ rows[k].usdt_api_success = "Yes"
             /\ rows[k].usdt_balance.coef = 0
             /\ rows[k].total_transactions # 0)
            => rows[k].wallet_status = "Active (No USDT)"

\* a wallet analysed with its history and transfer calls failed, no TRX and
\* three transactions, classified from the summary that analysis wrote
C14_Witness ==
    /\ prog = "csv_analyzer" /\ pc = "done" /\ wallet_data # <<>>
    /\ \E k \in 1..Len(rows) :
          /\ rows[k].usdt_api_success = "Yes"
          /\ rows[k].usdt_balance.coef = 0
          /\ rows[k].trx_balance.coef = 0
          /\ rows[k].total_transactions = 3
          /\ rows[k].transaction_history_api_success = "No"
          /\ rows[k].trc20_transfers_api_success = "No"
          /\ rows[k].wallet_status = "Active (No USDT)"

\* the entries of the companies section of the master summary for company c
CompanyEntries(c) ==
    {k \in 1..Len(summary.companies) : summary.companies[k].company = c}

\* the rows of the CSV whose wallet_status is st
RowsWithStatus(st) == {k \in 1..Len(rows) : rows[k].wallet_status = st}

\* an address book of two valid wallets, of companies A and B, analysed with
\* balance 10.0 for the first, 0.0 for the second and three transactions on
\* the second, and reported by csv_analyzer
C15_Scenario ==
    /\ prog = "csv_analyzer" /\ pc = "done"
    /\ wallet_data = <<WalletInfo(AddrValid, "A"), WalletInfo(AddrValid, "B")>>
    /\ Len(results) = 2
    /\ results[1].summary.usdt_api_success
    /\ NumEq(results[1].summary.usdt_balance, Dec(10, 0))
    /\ results[2].summary.usdt_api_success
    /\ NumEq(results[2].summary.usdt_balance, Dec(0, 0))
    /\ results[2].summary.total_transactions = 3

(* C15: for an address book of two valid wallets in companies A and B,      *)
(* with balance 10.0 for the first, 0.0 for the second and 3 transactions   *)
(* on the second, the run reports a total balance of 10.0, exactly one      *)
(* wallet with status 'Has USDT Balance', exactly one with status 'Active   *)
(* (No USDT)', and the company subtotals 10.0 for A and 0.0 for B.          *)
C15_EndToEnd ==
    C15_Scenario =>
        /\ NumEq(summary.totals.total_usdt_balance, Dec(10, 0))
        /\ summary.totals.wallets_with_usdt = 1
        /\ Cardinality(RowsWithStatus("Has USDT Balance")) = 1
        /\ Cardinality(RowsWithStatus("Active (No USDT)")) = 1
        /\ Cardinality(CompanyEntries("A")) = 1
        /\ Cardinality(CompanyEntries("B")) = 1
        /\ \A k \in CompanyEntries("A") :
              NumEq(summary.companies[k].total_usdt, Dec(10, 0))
        /\ \A k \in CompanyEntries("B") :
              NumEq(summary.companies[k].total_usdt, Dec(0, 0))

\* the scenario was run to its end, the second wallet without any TRX
C15_Witness ==
    /\ C15_Scenario
    /\ results[2].summary.trx_balance.coef = 0
    /\ Len(rows) = 2

\* the wallet's own address in any spelling
IsOwnAddress(x) == x \in {"SELF", "Self", "self"}

\* the to-address and the from-address of a transfer entry
ToOf(t) == IF t.to_address # "" THEN t.to_address ELSE t.toAddress

FromOf(t) == IF t.from_address # "" THEN t.from_address ELSE t.fromAddress

(* C16: count_trc20_transfers compares the addresses of every transfer      *)
(* entry with the wallet's own address without regard to case: an entry     *)
(* whose to-address is the wallet counts as incoming, an entry whose        *)
(* from-address is the wallet counts as outgoing, an entry matching neither *)
(* counts in neither, and no entry counts twice (an entry with both         *)
(* addresses equal to the wallet counts once, as incoming).                 *)
C16_TransferDirection ==
    (prog = "count_trc20_transfers" /\ pc = "returned") =>
        LET ts == cur.trc20_data.transfers
            incoming == {k \in 1..Len(ts) : IsOwnAddress(ToOf(ts[k]))}
            outgoing == {k \in 1..Len(ts) :
                            ~IsOwnAddress(ToOf(ts[k])) /\ IsOwnAddress(FromOf(ts[k]))}
        IN  /\ ts # <<>> => results.data_available
            /\ results.trc20_transfers_in = Cardinality(incoming)
            /\ results.trc20_transfers_out = Cardinality(outgoing)
            /\ results.total_trc20_transfers = Cardinality(incoming \cup outgoing)
            /\ results.total_trc20_transfers <= Len(ts)

\* a list of one transfer from the wallet to itself, spelled in two ways,
\* counted once and as incoming
C16_Witness ==
    /\ prog = "count_trc20_transfers" /\ pc = "returned"
    /\ cur.trc20_data.transfers = <<Tr("Self", "self")>>
    /\ results.trc20_transfers_in = 1
    /\ results.trc20_transfers_out = 0

\* the timestamps carried by the entries of a history
TimestampsOf(h) == {h.data[k].ts : k \in {j \in 1..Len(h.data) : h.data[j].hasTs}}

\* the least element of a non-empty set of numbers
Least(S) == CHOOSE x \in S : \A y \in S : x <= y

\* the calendar day, counted from 1970-01-01, of a time in ms at GMT+7
LocalDay(ms) == (ms + 7 * 3600 * 1000) \div (24 * 3600 * 1000)

(* C17: find_creation_date returns the date, at GMT+7, of the least         *)
(* timestamp among the history entries that carry one; it returns None      *)
(* exactly when the history is absent, has no entries, or has no entry with *)
(* a nonzero timestamp, and it does not raise for such input.               *)
C17_CreationDate ==
    (prog = "find_creation_date" /\ pc = "returned") =>
        LET unknown == \/ ~cur.some \/ ~cur.hasData \/ cur.data = <<>>
                       \/ TimestampsOf(cur) \subseteq {0}
        IN  /\ ~results.raised
            /\ (results.value = None) <=> unknown
            /\ ~unknown => results.value = Date(LocalDay(Least(TimestampsOf(cur))))

\* a listing in the order of company name first and wallet id second
OrderedByCompanyAndWallet(seq) ==
    \A j, k \in 1..Len(seq) :
        j < k =>
            \/ CompanyRank(seq[j].company) < CompanyRank(seq[k].company)
            \/ seq[j].company = seq[k].company /\ seq[j].wallet <= seq[k].wallet

\* a per-company listing in the order of company name
OrderedByCompany(seq) ==
    \A j, k \in 1..Len(seq) :
        j < k => CompanyRank(seq[j].company) < CompanyRank(seq[k].company)

(* C18: every per-wallet and per-company listing a run emits is ordered by  *)
(* company name first and wallet id second, whatever the order of the       *)
(* wallets in the address book: the CSV rows of balance_checker and of      *)
(* csv_analyzer, and the wallet_summaries and companies sections of the     *)
(* master summary.                                                          *)
C18_ListingsOrdered ==
    /\ (prog \in {"balance_checker", "csv_analyzer"} /\ pc = "done")
          => OrderedByCompanyAndWallet(rows)
    /\ (prog = "wallet_analyzer" /\ pc = "done")
          => /\ OrderedByCompanyAndWallet(summary.wallet_summaries)
             /\ OrderedByCompany(summary.companies)

\* company, wallet count and subtotal of the entries of a companies section
CompanyFigures(cs) ==
    {<<cs[k].company, cs[k].wallet_count, cs[k].total_usdt>> : k \in 1..Len(cs)}

(* C19: the aggregate of a run does not depend on the order of the wallets: *)
(* for two orders of the same address book with the same response for each  *)
(* wallet, the totals (successful and failed counts, total balance, wallets *)
(* with balance) and the wallet count and subtotal of each company are      *)
(* equal.                                                                   *)
C19_OrderInsensitive ==
    /\ (prog = "check_all_wallets" /\ pc = "returned") =>
          /\ results.first.summary = results.second.summary
          /\ results.first.companies = results.second.companies
    /\ (prog = "create_master_summary" /\ pc = "returned") =>
          /\ results.first.totals = results.second.totals
          /\ results.first.total_wallets = results.second.total_wallets
          /\ CompanyFigures(results.first.companies)
                = CompanyFigures(results.second.companies)

\* three wallets of two companies, one of them failed, aggregated in the
\* order of the book and with the last wallet moved to the front
C19_Witness ==
    /\ prog = "check_all_wallets" /\ pc = "returned"
    /\ cur.order = <<3, 1, 2>>
    /\ cur.entries[1].balance = Dec(15, -1) /\ cur.entries[1].info.company = "B"
    /\ cur.entries[2].balance = Dec(0, -1) /\ cur.entries[2].info.company = "<missing>"
    /\ cur.entries[3].balance = None /\ cur.entries[3].info.company = "<missing>"
    /\ results.second.summary.total_usdt_balance = Dec(15, -1)
    /\ results.second.summary.failed_checks = 1

\* a companies listing as triples of company, wallet count and subtotal
MasterFigures(cs) ==
    [k \in 1..Len(cs) |-> <<cs[k].company, cs[k].wallet_count, cs[k].total_usdt>>]

PrintedFigures(cs) ==
    [k \in 1..Len(cs) |-> <<cs[k].company, cs[k].count, cs[k].usdt_total>>]

RECURSIVE SumOfCounts(_, _)
SumOfCounts(figs, k) == IF k > Len(figs) THEN 0 ELSE figs[k][2] + SumOfCounts(figs, k + 1)

RECURSIVE SumOfSubtotals(_, _)
SumOfSubtotals(figs, k) ==
    IF k > Len(figs) THEN 0 ELSE Micro(figs[k][3]) + SumOfSubtotals(figs, k + 1)

\* the listing figs groups the wallets es by company, and adds up to total
GroupedByCompany(figs, total, es) ==
    LET NameOf(k) == IF es[k].info.company = "<missing>" THEN "Unknown"
                     ELSE es[k].info.company
        WalletsOf(c) == {k \in 1..Len(es) : NameOf(k) = c}
        Fetched(c) == {k \in WalletsOf(c) : es[k].balance # None}
        bal == [k \in 1..Len(es) |-> es[k].balance]
    IN  /\ \A j, k \in 1..Len(figs) : figs[j][1] = figs[k][1] => j = k
        /\ {figs[k][1] : k \in 1..Len(figs)} = {NameOf(k) : k \in 1..Len(es)}
        /\ \A k \in 1..Len(figs) :
              /\ figs[k][2] = Cardinality(WalletsOf(figs[k][1]))
              /\ Micro(figs[k][3]) = SumOfBalances(bal, Fetched(figs[k][1]))
        /\ SumOfCounts(figs, 1) = Len(es)
        /\ SumOfSubtotals(figs, 1) = Micro(total)

(* C20: the per-company subtotals are keyed by the company field of the     *)
(* wallet, 'Unknown' for a wallet without one: the subtotal of a company is *)
(* the sum of the balances fetched for exactly the wallets of that company, *)
(* every wallet is counted in exactly one company, the wallet counts add up *)
(* to the number of wallets aggregated and the subtotals to the total.      *)
C20_CompanySubtotals ==
    /\ (prog = "create_master_summary" /\ pc = "returned") =>
          GroupedByCompany(MasterFigures(results.first.companies),
                           results.first.totals.total_usdt_balance, cur.entries)
    /\ (prog = "check_all_wallets" /\ pc = "returned") =>
          GroupedByCompany(PrintedFigures(results.first.companies),
                           results.first.summary.total_usdt_balance, cur.entries)
    /\ (prog = "generate_summary_report" /\ pc = "returned") =>
          GroupedByCompany(PrintedFigures(results.companies),
                           results.summary.total_usdt, cur.entries)

\* a master summary of three wallets, two of them without a company, one of
\* these failed: 'Unknown' has two wallets and 1.5, company B one and 0.0
C20_Witness ==
    /\ prog = "create_master_summary" /\ pc = "returned"
    /\ Len(cur.entries) = 3
    /\ Len(results.first.companies) = 2
    /\ \E j, k \in 1..2 :
          /\ results.first.companies[j].company = "Unknown"
          /\ results.first.companies[j].wallet_count = 2
          /\ results.first.companies[j].total_usdt = Dec(15, -1)
          /\ results.first.companies[k].company = "B"
          /\ results.first.companies[k].total_usdt = Dec(0, -1)
    /\ results.first.totals.successful_balance_checks = 2

(* C21: a balance result, once produced for a wallet, is never changed by   *)
(* a later step of the run: after the summary and the saving of the report  *)
(* (save_detailed_report included) every wallet's result held in memory has *)
(* the value and the type it had when the fetch returned.                   *)
C21_ResultsNeverChange ==
    [][(prog \in Programs /\ prog' = prog) =>
          \A k \in 1..Len(results) :
              k <= Len(results') /\ results'[k] = results[k]]_vars

(* C22: the set of wallet records is fixed for the whole run: the address   *)
(* book is read at load time only and every decision taken while a wallet   *)
(* is processed, the choice of the wallets that get the debug requests      *)
(* included, depends on that snapshot alone, so that a change of the        *)
(* document during the run does not alter what the run does.                *)
C22_SnapshotDecides ==
    [][(prog = "wallet_analyzer" /\ prog' = prog) =>
          /\ pc # "load" => wallet_data' = wallet_data
          /\ (pc = "creation" /\ pc' \in {"debug", "trc20"}) =>
                (pc' = "debug" <=> i <= MinInt(DEBUG_WALLETS, Len(wallet_data)))
       ]_vars

(* C23: for every valid wallet of a run in which all requests succeed, the  *)
(* analysis issues one balance request and exactly three more, one to the   *)
(* account-info, one to the transaction-history and one to the              *)
(* token-transfer endpoint: four GETs for the wallet, wherever it stands in *)
(* the address book.                                                        *)
C23_FourRequestsPerWallet ==
    (prog = "wallet_analyzer" /\ pc = "finish" /\ failed = {}) =>
        sent = <<"tokens", "account", "transaction", "transfers">>

(* C24: after check_all_wallets on a non-empty address book,                *)
(* successful_checks + failed_checks = valid_wallets <= total_wallets,      *)
(* wallets_with_balance <= successful_checks, wallet_results holds exactly  *)
(* the wallets with a valid address (a wallet whose address is missing or   *)
(* invalid counts in total_wallets only), and fetch_multiple_balances       *)
(* returned one entry for every wallet it was given.                        *)
C24_CheckerCounts ==
    (prog = "balance_checker" /\ pc \in {"report", "done"}) =>
        LET total_wallets == Len(wallet_data)
            valid_wallets == Len(cur.to_check)
            valid == {w \in 1..Len(wallet_data) : AddressWellFormed(wallet_data[w].address)}
        IN  /\ summary.successful_checks + summary.failed_checks = valid_wallets
            /\ valid_wallets <= total_wallets
            /\ summary.wallets_with_balance <= summary.successful_checks
            /\ {results[k].wallet : k \in 1..Len(results)} = valid
            /\ Len(results) = Cardinality(valid)
            /\ Len(balances) = Len(cur.to_check)
            /\ \A k \in 1..Len(balances) : balances[k].wallet = cur.to_check[k]

\* a book of a wallet with a short address and a valid wallet whose fetch
\* failed: two wallets in all, one valid, no success, one failure
C24_Witness ==
    /\ prog = "balance_checker" /\ pc = "report"
    /\ Len(wallet_data) = 2
    /\ wallet_data[1].address = AddrShort
    /\ Len(results) = 1 /\ results[1].wallet = 2
    /\ summary.successful_checks = 0 /\ summary.failed_checks = 1

(* C25: in analyze_all_wallets every wallet of the address book is counted  *)
(* exactly once (successful_analyses + failed_analyses = number of wallets  *)
(* handled so far), and all_results holds exactly the wallets counted as    *)
(* successful, also when saving a wallet's output files fails: that wallet  *)
(* is counted as failed and is absent from all_results.                     *)
C25_CountedOnce ==
    (prog = "wallet_analyzer" /\ pc \in {"begin", "done"}) =>
        /\ counters.successful_analyses + counters.failed_analyses = i - 1
        /\ Len(results) = counters.successful_analyses

(* C26: in every result of get_usdt_balance_detailed, api_success is true   *)
(* if and only if usdt_balance is present (not None), and error is set only *)
(* when api_success is false, for every response, a 2xx body with a token   *)
(* entry of unexpected shape or an unparsable balance included.             *)
C26_DetailedResultConsistent ==
    (prog = "diagnostic" /\ pc = "account") =>
        /\ cur.usdt_details.api_success <=> cur.usdt_details.usdt_balance # None
        /\ cur.usdt_details.error # "None" => ~cur.usdt_details.api_success

(* C27: the token-transfer success flag (data_available, copied into        *)
(* api_success.trc20_transfers) is true if and only if the token-transfer   *)
(* request succeeded; a successful response listing zero transfers is       *)
(* reported as success with counts 0, not as an unavailable call.           *)
C27_TransferFlagIffRequestSucceeded ==
    (prog = "count_trc20_transfers" /\ pc = "returned") =>
        /\ results.data_available <=> cur.trc20_data.some
        /\ (cur.trc20_data.some /\ cur.trc20_data.transfers = <<>>) =>
              /\ results.data_available
              /\ results.total_trc20_transfers = 0

\* the sum of a count over the wallets of all_results
RECURSIVE SumOfTransfers(_, _, _)
SumOfTransfers(rs, k, incoming) ==
    IF k > Len(rs) THEN 0
    ELSE (IF incoming THEN rs[k].trc20_transfers_in ELSE rs[k].trc20_transfers_out)
         + SumOfTransfers(rs, k + 1, incoming)

(* C28: for every result of count_trc20_transfers, total_trc20_transfers =  *)
(* trc20_transfers_in + trc20_transfers_out; when data is available the     *)
(* total is at most transfers_found, and when it is not all three counts    *)
(* are 0. The master summary's total_trc20_transfers_in and                 *)
(* total_trc20_transfers_out are the sums of the per-wallet counts over all *)
(* wallets.                                                                 *)
C28_TransferCounts ==
    /\ (prog = "count_trc20_transfers" /\ pc = "returned") =>
          /\ results.total_trc20_transfers
                = results.trc20_transfers_in + results.trc20_transfers_out
          /\ results.data_available =>
                results.total_trc20_transfers <= results.transfers_found
          /\ ~results.data_available =>
                /\ results.trc20_transfers_in = 0
                /\ results.trc20_transfers_out = 0
                /\ results.total_trc20_transfers = 0
    /\ (prog = "analyze_all_wallets" /\ pc = "returned") =>
          /\ results.master.totals.total_trc20_transfers_in
                = SumOfTransfers(results.all_results, 1, TRUE)
          /\ results.master.totals.total_trc20_transfers_out
                = SumOfTransfers(results.all_results, 1, FALSE)
          /\ \A k \in 1..Len(results.all_results) :
                LET s == results.all_results[k]
                IN  /\ s.total_trc20_transfers
                          = s.trc20_transfers_in + s.trc20_transfers_out
                    /\ ~s.trc20_debug_info.data_available =>
                          s.total_trc20_transfers = 0

\* three wallets: one whose transfer request failed, one with an incoming and
\* an outgoing transfer, one with a transfer between two other addresses
C28_Witness ==
    /\ prog = "analyze_all_wallets" /\ pc = "returned"
    /\ Len(results.all_results) = 3
    /\ ~results.all_results[1].trc20_debug_info.data_available
    /\ results.all_results[2].total_trc20_transfers = 2
    /\ results.all_results[3].trc20_debug_info.transfers_found = 1
    /\ results.all_results[3].total_trc20_transfers = 0
    /\ results.master.totals.total_trc20_transfers_in = 1
    /\ results.master.totals.total_trc20_transfers_out = 1

\* the rows of the CSV whose balance fetch succeeded
SucceededRows == {k \in 1..Len(rows) : rows[k].usdt_api_success = "Yes"}

\* what wallet_analyzer recorded in memory for wallet w: TRUE when the
\* balance fetch returned a balance (wallet_analyzer.py, line 472)
FetchReturnedBalance(w) ==
    \E k \in 1..Len(summary.wallet_summaries) :
        /\ summary.wallet_summaries[k].wallet = w
        /\ summary.wallet_summaries[k].api_success

(* C29: csv_analyzer run over the summaries wallet_analyzer saved: a         *)
(* wallet's row has status 'API Failed' and usdt_api_success 'No' if and    *)
(* only if its balance fetch returned the no-result value in                *)
(* wallet_analyzer, although the saved summary records that wallet's        *)
(* usdt_balance as the text '0.0'; and the total USDT balance of the CSV    *)
(* summary sums only the rows whose balance fetch succeeded.                *)
C29_FailedFetchEndToEnd ==
    (prog = "csv_analyzer" /\ pc = "done") =>
        /\ wallet_data # <<>> =>
              \A k \in 1..Len(rows) :
                  /\ (rows[k].wallet_status = "API Failed"
                        /\ rows[k].usdt_api_success = "No")
                        <=> ~FetchReturnedBalance(rows[k].wallet)
                  /\ rows[k].wallet_status = "API Failed"
                        <=> rows[k].usdt_api_success = "No"
                  /\ ~FetchReturnedBalance(rows[k].wallet) =>
                        /\ summaries_dir[rows[k].wallet].usdt_balance = Str(0, -1)
                        /\ rows[k].usdt_balance = Str(0, -1)
        /\ SucceededRows # {} =>
              /\ printed.total_usdt # None
              /\ Micro(printed.total_usdt)
                    = SumOfBalances([k \in 1..Len(rows) |-> rows[k].usdt_balance],
                                    SucceededRows)
        /\ SucceededRows = {} => printed.total_usdt = None

\* two wallets analysed, the first with a failed balance fetch and the
\* second with a balance of 10.0, and both reported by csv_analyzer
C29_Witness ==
    /\ prog = "csv_analyzer" /\ pc = "done"
    /\ Len(wallet_data) = 2 /\ Len(rows) = 2
    /\ \E k \in 1..2 : /\ rows[k].wallet = 1
                       /\ rows[k].wallet_status = "API Failed"
                       /\ rows[k].usdt_balance = Str(0, -1)
    /\ \E k \in 1..2 : /\ rows[k].wallet = 2
                       /\ rows[k].usdt_api_success = "Yes"
                       /\ IsPositive(rows[k].usdt_balance)
    /\ NumEq(printed.total_usdt, Dec(10, 0))

\* the wallet ids of the documents that can be read and carry one
ReadableIds ==
    {WalletIdOf(summaries_dir, k) :
        k \in {j \in 1..Len(summaries_dir) :
                  summaries_dir[j].readable /\ summaries_dir[j].has_id}}

(* C30: analyze_and_create_csv emits exactly one row per distinct wallet_id *)
(* among the readable summary files: a file that cannot be read or parsed,  *)
(* or that has no wallet_id, is skipped and the remaining files are still   *)
(* loaded; when no summary is loaded the operation fails with an error and  *)
(* writes no CSV file.                                                      *)
C30_OneRowPerWalletId ==
    prog = "csv_analyzer" =>
        /\ pc = "done" =>
              /\ {rows[r].wallet : r \in 1..Len(rows)} = ReadableIds
              /\ Len(rows) = Cardinality(ReadableIds)
              /\ <<"wallet_analysis_consolidated.csv", 0>> \in files
        /\ pc = "failed" <=> (pc # "load" /\ ReadableIds = {})
        /\ pc = "failed" =>
              /\ rows = <<>>
              /\ <<"wallet_analysis_consolidated.csv", 0>> \notin files

\* a directory of an unreadable file followed by a readable one: the second
\* is loaded and gets the only row
C30_Witness ==
    /\ prog = "csv_analyzer" /\ pc = "done"
    /\ wallet_data = <<>>
    /\ Len(summaries_dir) = 2
    /\ ~summaries_dir[1].readable
    /\ Len(rows) = 1 /\ rows[1].wallet = 2

====
